---- MODULE Spec2Model ----
(***************************************************************************)
(* Request/response transports of the kinegraph drawing surface.           *)
(*                                                                         *)
(*   SpecCanvas  WasmCanvasDrawingContext (src/lib/wasmCanvas.ts) and its  *)
(*               worker (src/lib/wasmCanvasWorker.ts): correlation by a    *)
(*               numeric message id echoed by the worker.                  *)
(*   SpecEngine  WasmDrawEngine (lib/wasmDrawEngine.ts, unnamed/part_019)  *)
(*               and its worker (unnamed/part_010): correlation by the     *)
(*               type prefix of the request id, with a 5 s timeout.        *)
(***************************************************************************)
EXTENDS Integers, Sequences, FiniteSets, TLC

\* ---------------------------------------------------------------- bounds
\* number of public API calls made on one WasmCanvasDrawingContext
MaxCalls == 3
\* number of requests sent through one WasmDrawEngine
MaxEReqs == 3

\* largest stroke id a caller passes to addPoint / endStroke
MaxStrokeId == 1

StrokeIds == 0 .. MaxStrokeId

\* ------------------------------------------------------------- JS values
NoData == -1
Undefined == "undefined"

\* truthiness of the optional string field response.error
Truthy(e) == e \notin {Undefined, ""}

DrawingOps == {"startStroke", "addPoint", "endStroke", "clear"}

\* the stroke ids the worker's counter can hand out within the bound
StrokeSlots == 0 .. MaxCalls

\* error messages of the worker's handlers
ErrNotInit == "Worker context not initialized"
ErrNoStroke == "Stroke not found"
ErrInit == "Failed to initialize WASM module"
ErrBackend == "backend error"

\* ------------------------------------------------- Canvas2DRenderer values
\* number of pixels of the drawing surface
NPix == 1
\* number of commands executed by one renderer, sub-commands of a Batch
\* included
MaxCmds == 2

Pixels == 1 .. NPix

LayerIds == {"L1", "L2"}

\* a pixel of the main canvas is the list of the draw operations applied to it
\* since it was last cleared, each <<ink, alpha in tenths, composite operation>>
Blank == [p \in Pixels |-> <<>>]

Foreign == [p \in Pixels |-> << <<9, 10, "source-over">> >>]

\* createLayerCanvas: a transparent canvas with an empty dataset
createLayerCanvas ==
  [ink |-> [p \in Pixels |-> 0], opacity |-> Undefined,
   blendMode |-> Undefined, visible |-> Undefined]

\* new Map()
NoLayers == [id \in {} |-> createLayerCanvas]

\* ------------------------------------------------- useDrawingEngine values
\* width of the drawing surface, in pixels (one row of it is modelled)
SurfaceWidth == 2
\* number of backend commands and updateCanvas calls
MaxDOps == 4

\* x coordinates of the surface
Xs == 0 .. SurfaceWidth - 1

\* the layers of the backend's layer store, bottom first; layer l paints ink l
DLayers == 1 .. 2

\* DiffRenderData.dirtyRegion: null
NoRegion == [x |-> 0, width |-> 0]

\* ---------------------------------------------------------- useCanvas values
\* number of runs of the engine initialization effect
MaxEffects == 2
\* number of drawing requests (startDrawing, draw, endDrawing, clear)
MaxUReqs == 3

\* the values of drawingEngineAtom
Engines == {"canvas2d", "wasm", "wasmWorker"}

\* ---------------------------------------------------- useHybridDrawing values
\* number of points of state.currentStroke
MaxPoints == 2
\* number of pointer events (startDrawing, draw, endDrawing)
MaxHOps == 4

\* ------------------------------------- useDrawingEngine pointer handlers
\* number of pointer events (down, move, up)
MaxGOps == 3

\* ------------------------------------------------------ layer panel values
\* const maxLayers = 10
maxLayers == 10
\* largest layer count a panel is followed to
LayerCap == 11
\* number of panel requests in flight at a time, per panel
MaxPending == 2

\* ------------------------------------------------------ createProject values
\* number of createProject calls
MaxCreateCalls == 3
\* the values Date.now() can give when a call resumes
Clock == 1 .. 2
\* the two versions of createProject: invoke('create_project') and
\* commands.createProject
Versions == {"invoke", "commands"}

\* ------------------------------------------------------ command queue values
\* number of commands the backend returns to useHybridDrawing
MaxQCmds == 3

\* --------------------------------------------------------- addPoint values
\* the stroke ids an addPoint call is tried with
MaxAddId == 2
AddIds == 0 .. MaxAddId

\* --------------------------------------------- WasmDirectDrawingContext values
\* number of drawing calls (startStroke, addPoint, endStroke, clear)
MaxTOps == 3
\* the stroke ids strokeIdCounter can give
TIds == 0 .. MaxTOps - 1

\* ----------------------------------------- LayerPanelDrawingEngine id values
\* longest layer list followed
MaxLayerList == 3
\* number of handlers of the panel in flight at a time
MaxIdPending == 2

\* ------------------------------------------------------ DrawingEngine values
\* number of createLayer / removeLayer calls
MaxYOps == 3
\* the id arguments tried; "" is not a valid id
YIds == {"", "L1", "L2"}
\* ------------------------------------------------------ WASM loader values
\* number of callers of the loader
MaxZCallers == 6

\* ------------------------------------------------------- stroke input values
\* a JavaScript number: a finite value, NaN, Infinity or -Infinity
Finite(v) == [kind |-> "finite", v |-> v]
NaN == [kind |-> "NaN", v |-> 0]
Infinity == [kind |-> "Infinity", v |-> 0]
NegInfinity == [kind |-> "-Infinity", v |-> 0]
\* the value of an absent optional field
Absent == [kind |-> "undefined", v |-> 0]

\* Point: x, y and the optional pressure
Points ==
  [x : {Finite(0), Finite(1), NaN, Infinity, NegInfinity},
   y : {Finite(0), Finite(1), NaN, Infinity, NegInfinity},
   pressure : {Absent, Finite(-1), Finite(0), Finite(1), Finite(2), NaN}]

\* the DrawingContext implementations
Backends == {"useWasmCanvas", "wasmCanvasWorker", "canvas2dContext"}

\* largest coordinate of an end point of a line segment
MaxCoord == 4
Coords == 0 .. MaxCoord

VARIABLES
  \* ---- WasmCanvasDrawingContext (main thread)
  cWorker,          \* this.worker: "null" or "live"
  cInitialized,     \* this.initialized
  cTransferred,     \* the canvas has been transferred to an OffscreenCanvas
  messageId,        \* this.messageId
  pendingMessages,  \* keys of this.pendingMessages
  msgs,             \* the promise returned by each sendMessage, by id + 1
  cToWorker,        \* messages posted to the worker, not yet handled
  cToMain,          \* responses posted by the worker, not yet dispatched
  nCalls,           \* number of API calls made so far
  lastCall,         \* the last API call and whether it threw before posting
  cDestroyed,       \* destroy() has been called
  cReinit,          \* initialize() has been called after a destroy()
  \* ---- wasmCanvasWorker (worker thread)
  wAlive,           \* the worker exists and has not been terminated
  wInitAwait,       \* id of the init message whose handler is suspended
  wasmInitialized,  \* module-level wasmInitialized
  wCtx,             \* workerContext.ctx / imageData are set
  wDrawingContext,  \* workerContext.drawingContext is set
  activeStrokes,    \* workerContext.activeStrokes: stroke id -> #points
  strokeIdCounter,  \* workerContext.strokeIdCounter
  \* ---- WasmDrawEngine (main thread)
  eWorker,          \* this.worker: "null" or "live"
  eInitCalled,      \* initialize() has been called on this engine
  requestIdCounter, \* this.requestIdCounter
  pendingRequests,  \* keys of this.pendingRequests, in insertion order
  reqs,             \* the promise returned by each sendRequest, by counter + 1
  eTimers,          \* requests whose 5 s timer is armed
  eToWorker,        \* requests posted to the worker, not yet handled
  eToMain,          \* responses posted by the worker, not yet dispatched
  canvasBuffer,     \* this.canvasBuffer: "null", "shared" or "local"
  eDestroyCalled,   \* destroy() has been called with a live worker
  eTerminated,      \* worker.terminate() has been called
  eRead,            \* the buffer the last main-thread step copied to the
                    \* canvas: "none", "shared" or "local"
  \* ---- wasmDrawEngineWorker (worker thread)
  kModule,          \* wasmModule is loaded
  kEngine,          \* drawEngine is set
  kView,            \* canvasView is set
  kInitAwait,       \* init requests whose handler is suspended at an await
  \* ---- Canvas2DRenderer (lib/renderer/canvasRenderer.ts)
  rCtx,             \* this.ctx / this.canvas: "null" or "set"
  layers,           \* this.layers: layer id -> layer canvas
  layerOrder,       \* this.layerOrder
  rMain,            \* the pixels of the main canvas
  rCmds,            \* number of commands executed so far
  rLast,            \* the last command submitted and whether it threw
  \* ---- useDrawingEngine.updateCanvas and the drawing backend behind it
  dStore,           \* backend: the pixels of each layer
  dDirty,           \* backend: the dirty region accumulated since the last diff
  dCanvas,          \* the pixels of the visible canvas (canvasRef.current)
  dQueue,           \* updateCanvas calls suspended at their await, oldest first
  dOps,             \* number of backend commands and updateCanvas calls so far
  dLast,            \* the region the last diff update painted, or NoRegion
  \* ---- useCanvas (lib/useCanvas.ts, unnamed/part_006)
  uMounted,         \* the hook is mounted
  uEngine,          \* drawingEngineAtom, as the last effect run saw it
  uCanvasMode,      \* context mode of canvasRef.current: none, 2d, placeholder
  uCreated,         \* every DrawingContext created so far: kind and destroyed
  uContextRef,      \* drawingContextRef.current: index in uCreated, 0 for null
  uRuns,            \* the initEngine runs started so far
  uIsReady,         \* isReady
  uIsDrawing,       \* isDrawing
  uStrokeRef,       \* currentStrokeIdRef.current is set
  uStartPending,    \* startStroke calls not yet acknowledged
  uReqs,            \* number of drawing requests made so far
  uLast,            \* the last drawing request and what became of it
  \* ---- useHybridDrawing
  hIsDrawing,       \* state.isDrawing
  currentStroke,    \* state.currentStroke: each point is the number of the
                    \* pointer event that recorded it
  hPending,         \* drawStroke calls in flight: the points passed to each
  commandQueue,     \* state.commandQueue
  hOps,             \* number of pointer events so far
  hLast,            \* the last pointer event, its stroke and what was sent
  \* ---- startStroke and drawLine of the drawing contexts
  strokeCall,       \* the last startStroke call: backend and point
  strokeOutcome,    \* whether it threw and whether it stored a stroke
  lineCall,         \* the last drawLine call: the two end points
  linePoints,       \* the points it passed to draw_stroke, times .steps
  \* ---- useDrawingEngine (pointer handlers)
  gInitialized,     \* state.canvasId is set and state.isInitialized
  gIsDrawing,       \* isDrawing
  drawCommands,     \* commands.drawCommand calls whose await has not resumed
  gOps,             \* number of pointer events so far
  gLast,            \* the last pointer event and whether it sent a command
  \* ---- LayerPanel and LayerPanelDrawingEngine
  lpLayers,         \* LayerPanel: currentFrame.layers.length
  lpPending,        \* LayerPanel: requests awaiting the backend
  leLayers,         \* LayerPanelDrawingEngine: layers.length
  lePending,        \* LayerPanelDrawingEngine: requests awaiting the backend
  \* ---- createProject
  createCalls,      \* the createProject calls made so far
  \* ---- Canvas (hybrid) and the mount of useHybridDrawing
  mMounted,         \* the Canvas component has mounted
  drawingState,     \* state.drawingState: "null" or "set"
  initRenderer,     \* the initRenderer effect: "notRun" or "returned"
  \* ---- useHybridDrawing: the command queue and its effect
  qQueue,           \* state.commandQueue of the last committed render
  qUpdates,         \* the setState updates React has not applied yet
  qEffectPending,   \* the command queue effect of the last commit has to run
  qRenderer,        \* rendererRef.current: "null" or "set"
  qExecuted,        \* the commands the renderer has executed, in order
  qInFlight,        \* backend calls awaiting their answer
  qIssued           \* number of commands the backend has returned

VARIABLES
  \* ---- addPoint of the drawing contexts
  addCall,          \* the addPoint call: backend, stroke id, active strokes
  addOutcome        \* what the call did

VARIABLES
  \* ---- WasmDirectDrawingContext / WasmViteDrawingContext
  tStage,           \* "new", "created", "installed", "failed" or "destroyed"
  tAllocs,          \* the WASM objects allocated: kind and whether freed
  tDrawingContext,  \* this.drawingContext: index in tAllocs, 0 for null
  tSharedBuffer,    \* this.sharedBuffer: index in tAllocs, 0 for null
  tActive,          \* activeStrokes: number of points by stroke id, 0 if absent
  tCounter,         \* strokeIdCounter
  tSched,           \* needsRedraw and the animation frame request
  tDirty,           \* a drawing call has completed since the last updateCanvas
  tOps,             \* number of drawing calls made
  tLast             \* the last step: its name and whether it threw

VARIABLES
  \* ---- LayerPanelDrawingEngine: the layers by id
  lIds,             \* the ids of layers, in list order
  lIdPending        \* handlers awaiting the backend, with the list they saw

VARIABLES
  \* ---- DrawingEngine: the local layer registry
  yInitialized,     \* this.isInitialized
  yLayers,          \* the keys of this.layers
  yPending,         \* createLayer / removeLayer calls awaiting invoke
  yOps,             \* number of createLayer / removeLayer calls made
  yLast             \* the last step of a call: operation and outcome

VARIABLES
  \* ---- the WASM module loaders
  zLoader,          \* which loader: "initWasm" or "initializeWasmModule"
  zModule,          \* wasmModule: "null" or "set"
  zPromise,         \* the init promise: "null", "pending", "resolved", "rejected"
  zLoads,           \* number of times loading the module was started
  zCallers          \* by caller: what it was given, "module" or "promise"

cvars == <<cWorker, cInitialized, cTransferred, messageId, pendingMessages,
           msgs, cToWorker, cToMain, nCalls, lastCall, cDestroyed, cReinit>>
wvars == <<wAlive, wInitAwait, wasmInitialized, wCtx, wDrawingContext,
           activeStrokes, strokeIdCounter>>
\* the main-thread variables other than the two message queues
cvarsButQueues == <<cWorker, cInitialized, cTransferred, messageId,
                    pendingMessages, msgs, nCalls, lastCall, cDestroyed,
                    cReinit>>
evars == <<eWorker, eInitCalled, requestIdCounter, pendingRequests, reqs,
           eTimers, eToWorker, eToMain, canvasBuffer, eDestroyCalled,
           eTerminated, eRead>>
kvars == <<kModule, kEngine, kView, kInitAwait>>
rvars == <<rCtx, layers, layerOrder, rMain, rCmds, rLast>>
\* the variables outside the two transports
dvars == <<dStore, dDirty, dCanvas, dQueue, dOps, dLast>>
uvars == <<uMounted, uEngine, uCanvasMode, uCreated, uContextRef, uRuns,
           uIsReady, uIsDrawing, uStrokeRef, uStartPending, uReqs, uLast>>
hvars == <<hIsDrawing, currentStroke, hPending, commandQueue, hOps, hLast>>
pvars == <<strokeCall, strokeOutcome, lineCall, linePoints>>
gvars == <<gInitialized, gIsDrawing, drawCommands, gOps, gLast>>
avars == <<lpLayers, lpPending, leLayers, lePending, createCalls, mMounted,
           drawingState, initRenderer>>
qvars == <<qQueue, qUpdates, qEffectPending, qRenderer, qExecuted, qInFlight,
           qIssued>>
ivars == <<addCall, addOutcome>>
tvars == <<tStage, tAllocs, tDrawingContext, tSharedBuffer, tActive, tCounter,
           tSched, tDirty, tOps, tLast>>
lvars == <<lIds, lIdPending>>
yvars == <<yInitialized, yLayers, yPending, yOps, yLast>>
zvars == <<zLoader, zModule, zPromise, zLoads, zCallers>>
xvars == <<qvars, ivars, tvars, lvars, yvars, zvars>>
svars == <<rvars, dvars, uvars, hvars, pvars, gvars, avars, xvars>>
vars == <<cvars, wvars, evars, kvars, svars>>

\* ------------------------------------------------------------------ Init
InitCanvas ==
  /\ cWorker = "null"
  /\ cInitialized = FALSE
  /\ cTransferred = FALSE
  /\ messageId = 0
  /\ pendingMessages = {}
  /\ msgs = <<>>
  /\ cToWorker = <<>>
  /\ cToMain = <<>>
  /\ nCalls = 0
  /\ lastCall = [op |-> "none", rejected |-> FALSE]
  /\ cDestroyed = FALSE
  /\ cReinit = FALSE

InitCanvasWorker ==
  /\ wAlive = FALSE
  /\ wInitAwait = {}
  /\ wasmInitialized = FALSE
  /\ wCtx = FALSE
  /\ wDrawingContext = FALSE
  /\ activeStrokes = [k \in StrokeSlots |-> 0]
  /\ strokeIdCounter = 0

InitEngine ==
  /\ eWorker = "null"
  /\ eInitCalled = FALSE
  /\ requestIdCounter = 0
  /\ pendingRequests = <<>>
  /\ reqs = <<>>
  /\ eTimers = {}
  /\ eToWorker = <<>>
  /\ eToMain = <<>>
  /\ canvasBuffer = "null"
  /\ eDestroyCalled = FALSE
  /\ eTerminated = FALSE
  /\ eRead = "none"

InitEngineWorker ==
  /\ kModule = FALSE
  /\ kEngine = FALSE
  /\ kView = FALSE
  /\ kInitAwait = {}

\* new Canvas2DRenderer(); the canvas element it is later given holds
\* whatever was painted on it before (nothing, or foreign content)
InitRenderer ==
  /\ rCtx = "null"
  /\ layers = NoLayers
  /\ layerOrder = <<>>
  /\ rMain \in {Blank, Foreign}
  /\ rCmds = 0
  /\ rLast = [type |-> "none", layer |-> "", threw |-> FALSE]

\* a backend canvas right after initCanvas, shown by a blank canvas element
InitDiff ==
  /\ dStore = [l \in DLayers |-> [x \in Xs |-> 0]]
  /\ dDirty = NoRegion
  /\ dCanvas = [x \in Xs |-> 0]
  /\ dQueue = <<>>
  /\ dOps = 0
  /\ dLast = NoRegion

\* useCanvas before its first effect run, on a canvas element never used
InitUseCanvas ==
  /\ uMounted = TRUE
  /\ uEngine = "none"
  /\ uCanvasMode = "none"
  /\ uCreated = <<>>
  /\ uContextRef = 0
  /\ uRuns = <<>>
  /\ uIsReady = FALSE
  /\ uIsDrawing = FALSE
  /\ uStrokeRef = FALSE
  /\ uStartPending = 0
  /\ uReqs = 0
  /\ uLast = [op |-> "none", outcome |-> "none"]

InitHybrid ==
  /\ hIsDrawing = FALSE
  /\ currentStroke = <<>>
  /\ hPending = <<>>
  /\ commandQueue = <<>>
  /\ hOps = 0
  /\ hLast = [op |-> "none", event |-> "none", points |-> 0, sent |-> FALSE]

InitStrokeInput ==
  /\ strokeCall = [backend |-> "none", point |-> [x |-> Finite(0),
                   y |-> Finite(0), pressure |-> Absent], ready |-> TRUE]
  /\ strokeOutcome = [threw |-> FALSE, stored |-> FALSE]
  /\ lineCall = [called |-> FALSE, x1 |-> 0, y1 |-> 0, x2 |-> 0, y2 |-> 0]
  /\ linePoints = [steps |-> 1, points |-> <<>>]

InitPointer ==
  /\ gInitialized = FALSE
  /\ gIsDrawing = FALSE
  /\ drawCommands = <<>>
  /\ gOps = 0
  /\ gLast = [op |-> "none", sent |-> FALSE]

InitQueue ==
  /\ qQueue = <<>>
  /\ qUpdates = <<>>
  /\ qEffectPending = FALSE
  /\ qRenderer = "null"
  /\ qExecuted = <<>>
  /\ qInFlight = 0
  /\ qIssued = 0

InitAddPoint ==
  /\ addCall = [backend |-> "none", id |-> 0, active |-> {}, ready |-> TRUE]
  /\ addOutcome = [threw |-> "none", drew |-> FALSE]

InitDirect ==
  /\ tStage = "new"
  /\ tAllocs = <<>>
  /\ tDrawingContext = 0
  /\ tSharedBuffer = 0
  /\ tActive = [id \in TIds |-> 0]
  /\ tCounter = 0
  /\ tSched = [needsRedraw |-> FALSE, frame |-> "none"]
  /\ tDirty = FALSE
  /\ tOps = 0
  /\ tLast = [op |-> "none", threw |-> FALSE]

InitLayerIds ==
  /\ lIds = <<0>>
  /\ lIdPending = <<>>

InitRegistry ==
  /\ yInitialized = FALSE
  /\ yLayers = {}
  /\ yPending = <<>>
  /\ yOps = 0
  /\ yLast = [op |-> "none", outcome |-> "none"]

InitLoader ==
  /\ zLoader \in {"initWasm", "initializeWasmModule"}
  /\ zModule = "null"
  /\ zPromise = "null"
  /\ zLoads = 0
  /\ zCallers = <<>>

InitExtra == InitQueue /\ InitAddPoint /\ InitDirect /\ InitLayerIds /\ InitRegistry /\ InitLoader

InitApp ==
  /\ lpLayers = 0
  /\ lpPending = <<>>
  /\ leLayers = 1
  /\ lePending = <<>>
  /\ createCalls = <<>>
  /\ mMounted = FALSE
  /\ drawingState = "null"
  /\ initRenderer = "notRun"

Init ==
  /\ InitCanvas /\ InitCanvasWorker /\ InitEngine /\ InitEngineWorker
  /\ InitRenderer /\ InitDiff /\ InitUseCanvas /\ InitHybrid
  /\ InitStrokeInput /\ InitPointer /\ InitApp /\ InitExtra

\* ------------------------------------- WasmCanvasDrawingContext.sendMessage
\* the guard of sendMessage: it throws 'Worker not initialized' otherwise
SendAllowedAlways == TRUE

SendAllowed == cWorker # "null"

\* the body of sendMessage once the guard has passed
SendMessage(type, sid) ==
  /\ messageId' = messageId + 1
  /\ pendingMessages' = pendingMessages \cup {messageId}
  /\ msgs' = Append(msgs, [type |-> type, sid |-> sid, st |-> "pending",
                           val |-> NoData, err |-> Undefined,
                           threw |-> FALSE])
  /\ cToWorker' = Append(cToWorker, [id |-> messageId, type |-> type, sid |-> sid])

Called(op, rej) ==
  /\ nCalls' = nCalls + 1
  /\ lastCall' = [op |-> op, rejected |-> rej]

\* a call that throws before it posts anything
Rejected(op) ==
  /\ Called(op, TRUE)
  /\ UNCHANGED <<messageId, pendingMessages, msgs, cToWorker>>

CInitialize ==
  /\ nCalls < MaxCalls
  /\ cReinit' = (cReinit \/ cDestroyed)
  /\ IF cInitialized
       THEN /\ Called("initialize", FALSE)
            /\ UNCHANGED <<cWorker, cTransferred, messageId, pendingMessages,
                           msgs, cToWorker, wAlive>>
       ELSE IF cTransferred
         THEN \* transferControlToOffscreen throws on a transferred canvas
              /\ Rejected("initialize")
              /\ UNCHANGED <<cWorker, cTransferred, wAlive>>
         ELSE /\ cTransferred' = TRUE
              /\ cWorker' = "live"
              /\ wAlive' = TRUE
              /\ Called("initialize", FALSE)
              /\ SendMessage("init", NoData)
  /\ UNCHANGED <<cInitialized, cToMain, cDestroyed>>
  /\ UNCHANGED <<wInitAwait, wasmInitialized, wCtx, wDrawingContext,
                 activeStrokes, strokeIdCounter>>
  /\ UNCHANGED <<evars, kvars, svars>>

\* startStroke and addPoint check this.initialized first
CGuarded(op, sid) ==
  /\ nCalls < MaxCalls
  /\ IF ~cInitialized \/ ~SendAllowed
       THEN Rejected(op)
       ELSE Called(op, FALSE) /\ SendMessage(op, sid)
  /\ UNCHANGED <<cWorker, cInitialized, cTransferred, cToMain, cDestroyed,
                 cReinit>>
  /\ UNCHANGED <<wvars, evars, kvars, svars>>

\* endStroke and clear go straight to sendMessage
CUnguarded(op, sid) ==
  /\ nCalls < MaxCalls
  /\ IF ~SendAllowed
       THEN Rejected(op)
       ELSE Called(op, FALSE) /\ SendMessage(op, sid)
  /\ UNCHANGED <<cWorker, cInitialized, cTransferred, cToMain, cDestroyed,
                 cReinit>>
  /\ UNCHANGED <<wvars, evars, kvars, svars>>

CStartStroke == CGuarded("startStroke", NoData)

CAddPoint == \E sid \in StrokeIds : CGuarded("addPoint", sid)

CEndStroke == \E sid \in StrokeIds : CUnguarded("endStroke", sid)

CClear == CUnguarded("clear", NoData)

\* destroy(): terminate() discards the worker's unhandled messages; whether
\* responses already queued for the main thread are still dispatched is left
\* open (both outcomes are modelled)
CDestroy ==
  /\ nCalls < MaxCalls
  /\ Called("destroy", FALSE)
  /\ cDestroyed' = TRUE
  /\ cReinit' = FALSE
  /\ IF cWorker # "null"
       THEN /\ wAlive' = FALSE
            /\ cToWorker' = <<>>
            /\ cToMain' \in {cToMain, <<>>}
       ELSE UNCHANGED <<wAlive, cToWorker, cToMain>>
  /\ cWorker' = "null"
  /\ pendingMessages' = {}
  /\ cInitialized' = FALSE
  /\ UNCHANGED <<cTransferred, messageId, msgs>>
  /\ UNCHANGED <<wInitAwait, wasmInitialized, wCtx, wDrawingContext,
                 activeStrokes, strokeIdCounter>>
  /\ UNCHANGED <<evars, kvars, svars>>

\* ------------------------------- the 'message' listener set by initialize
\* the pending entry a response is matched with
MatchPendingByOldest(r) ==
  IF pendingMessages = {} THEN {}
  ELSE {CHOOSE i \in pendingMessages : \A j \in pendingMessages : i <= j}

MatchPending(r) == IF r.id \in pendingMessages THEN {r.id} ELSE {}

\* (.threw copies the response's bookkeeping field, see Response)
Settle(m, r) ==
  IF Truthy(r.error)
    THEN [m EXCEPT !.st = "rejected", !.err = r.error, !.threw = r.threw]
    ELSE [m EXCEPT !.st = "resolved", !.val = r.data, !.threw = r.threw]

COnMessage ==
  /\ cToMain # <<>>
  /\ LET r == Head(cToMain)
         hit == MatchPending(r)
     IN /\ cToMain' = Tail(cToMain)
        /\ IF hit = {}
             THEN UNCHANGED <<pendingMessages, msgs, messageId, cToWorker,
                              cInitialized>>
             ELSE LET id == CHOOSE i \in hit : TRUE
                      m == Settle(msgs[id + 1], r)
                      settled == [msgs EXCEPT ![id + 1] = m]
                  IN IF m.st = "resolved"
                          /\ m.type \in {"addPoint", "endStroke", "clear"}
                          /\ SendAllowed
                       THEN \* the awaiting method goes on to updateCanvas()
                            /\ messageId' = messageId + 1
                            /\ pendingMessages' =
                                 (pendingMessages \ {id}) \cup {messageId}
                            /\ msgs' = Append(settled,
                                 [type |-> "updateCanvas", sid |-> NoData,
                                  st |-> "pending", val |-> NoData,
                                  err |-> Undefined, threw |-> FALSE])
                            /\ cToWorker' = Append(cToWorker,
                                 [id |-> messageId, type |-> "updateCanvas",
                                  sid |-> NoData])
                            /\ UNCHANGED cInitialized
                       ELSE /\ pendingMessages' = pendingMessages \ {id}
                            /\ msgs' = settled
                            /\ cInitialized' =
                                 (cInitialized
                                    \/ (m.type = "init" /\ m.st = "resolved"))
                            /\ UNCHANGED <<messageId, cToWorker>>
  /\ UNCHANGED <<cWorker, cTransferred, nCalls, lastCall, cDestroyed, cReinit>>
  /\ UNCHANGED <<wvars, evars, kvars, svars>>

\* ------------------------------------------------ wasmCanvasWorker.ts
\* the worker's event loop dispatches queued messages in arrival order
WorkerPickLast(q) == Len(q)

WorkerPick(q) == 1

RemoveAt(q, i) == [k \in 1 .. Len(q) - 1 |-> IF k < i THEN q[k] ELSE q[k + 1]]

\* .threw tells whether executing the request threw in the worker, in the
\* handler or in the backend call; it is not part of the message (bookkeeping)
Response(id, type, data, error) ==
  [id |-> id, type |-> type, data |-> data, error |-> error, threw |-> FALSE]

\* the catch block of the message handler
ErrorResponse(id, msg) ==
  [id |-> id, type |-> "error", data |-> NoData, error |-> msg,
   threw |-> TRUE]

\* the catch blocks of startStroke and of drawSinglePoint: a failing
\* draw_stroke is logged and the stroke id is returned all the same
Swallow(id, data) ==
  [Response(id, "strokeStarted", data, Undefined) EXCEPT !.threw = TRUE]

\* self.postMessage(response) together with the handled message's removal
WPost(m, resp) ==
  /\ cToWorker' = RemoveAt(cToWorker, WorkerPick(cToWorker))
  /\ cToMain' = Append(cToMain, resp)

WorkerHead == cToWorker[WorkerPick(cToWorker)]

WFrame == UNCHANGED <<cvarsButQueues, wAlive, evars, kvars, svars>>

\* case 'init', up to the first await of WorkerContext.initialize
WInitBegin ==
  /\ wAlive /\ cToWorker # <<>>
  /\ LET m == WorkerHead
     IN /\ m.type = "init"
        /\ \E ctxOk \in BOOLEAN :
             IF ctxOk
               THEN /\ wCtx' = TRUE
                    /\ wInitAwait' = wInitAwait \cup {m.id}
                    /\ cToWorker' = RemoveAt(cToWorker, WorkerPick(cToWorker))
                    /\ UNCHANGED cToMain
               ELSE /\ WPost(m, ErrorResponse(m.id, ErrInit))
                    /\ UNCHANGED <<wCtx, wInitAwait>>
  /\ UNCHANGED <<wasmInitialized, wDrawingContext, activeStrokes,
                 strokeIdCounter>>
  /\ WFrame

\* case 'init', from the resumption of WorkerContext.initialize to postMessage
WInitFinish ==
  /\ wAlive
  /\ \E id \in wInitAwait :
       /\ wInitAwait' = wInitAwait \ {id}
       /\ \E outcome \in {"ok", "importFail", "createFail", "clearFail"} :
            /\ outcome = "importFail" => ~wasmInitialized
            /\ wasmInitialized' = (wasmInitialized \/ outcome # "importFail")
            /\ wDrawingContext' =
                 (wDrawingContext \/ outcome \in {"ok", "clearFail"})
            /\ LET resp == IF outcome = "ok"
                             THEN Response(id, "initialized", NoData, Undefined)
                             ELSE ErrorResponse(id, ErrInit)
               IN cToMain' = Append(cToMain, resp)
  /\ UNCHANGED <<cToWorker, wCtx, activeStrokes, strokeIdCounter>>
  /\ WFrame

\* case 'startStroke': WorkerContext.startStroke
WStartStroke ==
  /\ wAlive /\ cToWorker # <<>>
  /\ LET m == WorkerHead
     IN /\ m.type = "startStroke"
        /\ IF ~wDrawingContext
             THEN /\ WPost(m, ErrorResponse(m.id, ErrNotInit))
                  /\ UNCHANGED <<activeStrokes, strokeIdCounter>>
             ELSE /\ strokeIdCounter' = strokeIdCounter + 1
                  /\ activeStrokes' =
                       [activeStrokes EXCEPT ![strokeIdCounter] = 1]
                  /\ \E drawOk \in BOOLEAN :
                       WPost(m, IF drawOk
                                  THEN Response(m.id, "strokeStarted",
                                                strokeIdCounter, Undefined)
                                  ELSE Swallow(m.id, strokeIdCounter))
  /\ UNCHANGED <<wInitAwait, wasmInitialized, wCtx, wDrawingContext>>
  /\ WFrame

\* case 'addPoint': WorkerContext.addPoint
WAddPoint ==
  /\ wAlive /\ cToWorker # <<>>
  /\ LET m == WorkerHead
     IN /\ m.type = "addPoint"
        /\ \E drawOk \in BOOLEAN :
             IF ~wDrawingContext
               THEN /\ WPost(m, ErrorResponse(m.id, ErrNotInit))
                    /\ UNCHANGED activeStrokes
               ELSE IF activeStrokes[m.sid] = 0
                 THEN /\ WPost(m, ErrorResponse(m.id, ErrNoStroke))
                      /\ UNCHANGED activeStrokes
                 ELSE IF ~drawOk
                   THEN \* drawLine rethrows before the point is pushed
                        /\ WPost(m, ErrorResponse(m.id, ErrBackend))
                        /\ UNCHANGED activeStrokes
                   ELSE /\ activeStrokes' =
                             [activeStrokes EXCEPT ![m.sid] = @ + 1]
                        /\ WPost(m, Response(m.id, "pointAdded", NoData,
                                             Undefined))
  /\ UNCHANGED <<wInitAwait, wasmInitialized, wCtx, wDrawingContext,
                 strokeIdCounter>>
  /\ WFrame

\* case 'endStroke': WorkerContext.endStroke
WEndStroke ==
  /\ wAlive /\ cToWorker # <<>>
  /\ LET m == WorkerHead
     IN /\ m.type = "endStroke"
        /\ \E drawOk \in BOOLEAN :
             IF ~wDrawingContext
               THEN /\ WPost(m, ErrorResponse(m.id, ErrNotInit))
                    /\ UNCHANGED activeStrokes
               ELSE IF activeStrokes[m.sid] # 0 /\ ~drawOk
                 THEN \* draw_stroke rethrows before activeStrokes.delete
                      /\ WPost(m, ErrorResponse(m.id, ErrBackend))
                      /\ UNCHANGED activeStrokes
                 ELSE /\ activeStrokes' = [activeStrokes EXCEPT ![m.sid] = 0]
                      /\ WPost(m, Response(m.id, "strokeEnded", NoData,
                                           Undefined))
  /\ UNCHANGED <<wInitAwait, wasmInitialized, wCtx, wDrawingContext,
                 strokeIdCounter>>
  /\ WFrame

\* case 'clear': WorkerContext.clear
WClear ==
  /\ wAlive /\ cToWorker # <<>>
  /\ LET m == WorkerHead
     IN /\ m.type = "clear"
        /\ \E clearOk \in BOOLEAN :
             IF ~wDrawingContext
               THEN /\ WPost(m, ErrorResponse(m.id, ErrNotInit))
                    /\ UNCHANGED activeStrokes
               ELSE IF ~clearOk
                 THEN /\ WPost(m, ErrorResponse(m.id, ErrBackend))
                      /\ UNCHANGED activeStrokes
                 ELSE /\ activeStrokes' = [k \in StrokeSlots |-> 0]
                      /\ WPost(m, Response(m.id, "cleared", NoData, Undefined))
  /\ UNCHANGED <<wInitAwait, wasmInitialized, wCtx, wDrawingContext,
                 strokeIdCounter>>
  /\ WFrame

\* case 'updateCanvas': WorkerContext.updateCanvas
WUpdateCanvas ==
  /\ wAlive /\ cToWorker # <<>>
  /\ LET m == WorkerHead
     IN /\ m.type = "updateCanvas"
        /\ \E copyOk \in BOOLEAN :
             IF ~wDrawingContext \/ ~wCtx
               THEN WPost(m, ErrorResponse(m.id, ErrNotInit))
               ELSE IF ~copyOk
                 THEN WPost(m, ErrorResponse(m.id, ErrBackend))
                 ELSE WPost(m, Response(m.id, "canvasUpdated", NoData,
                                        Undefined))
  /\ UNCHANGED <<wInitAwait, wasmInitialized, wCtx, wDrawingContext,
                 activeStrokes, strokeIdCounter>>
  /\ WFrame

NextCanvas ==
  \/ CInitialize \/ CStartStroke \/ CAddPoint \/ CEndStroke \/ CClear
  \/ CDestroy \/ COnMessage
  \/ WInitBegin \/ WInitFinish \/ WStartStroke \/ WAddPoint \/ WEndStroke
  \/ WClear \/ WUpdateCanvas

SpecCanvas == Init /\ [][NextCanvas]_vars

\* ------------------------------------------------------- WasmDrawEngine
\* reqs[n] is the promise of the request with id `${type}_${n - 1}`; .by is
\* the request the settling response was produced for (bookkeeping)
NewRequest(type) ==
  [type |-> type, st |-> "pending", why |-> "none", by |-> 0]

\* position in pendingRequests of the first key that starts with the given
\* type (no request type is a prefix of another), or 0
FirstMatch(type) ==
  LET hits == {i \in 1 .. Len(pendingRequests) :
                 reqs[pendingRequests[i]].type = type}
  IN IF hits = {} THEN 0 ELSE CHOOSE i \in hits : \A j \in hits : i <= j

Without(q, n) == SelectSeq(q, LAMBDA x : x # n)

\* responseTypeMap of handleWorkerMessage
ResponseTypeMap(type) ==
  CASE type = "initialized" -> "init"
    [] type = "strokeStarted" -> "startStroke"
    [] type = "pointAdded" -> "addPoint"
    [] type = "strokeEnded" -> "endStroke"
    [] type = "cleared" -> "clear"
    [] type = "resized" -> "resize"
    [] type = "destroyed" -> "destroy"
    [] OTHER -> ""

\* the code that awaits the promise of a request, run when it settles:
\* initialize() after init, the then() of resize(), the finally() of destroy()
EContinue(type, resolved, sharedBuffer) ==
  /\ canvasBuffer' =
       CASE type = "init" /\ resolved ->
              IF sharedBuffer THEN "shared" ELSE "local"
         [] type = "resize" /\ resolved -> "local"
         [] OTHER -> canvasBuffer
  /\ eWorker' = IF type = "destroy" THEN "null" ELSE eWorker
  /\ eTerminated' = (eTerminated \/ (type = "destroy" /\ eWorker # "null"))

\* the body of sendRequest: register the promise, post, arm the 5 s timer
\* (the pending table is updated by the caller of this operator)
ESendRequest(type) ==
  /\ requestIdCounter < MaxEReqs
  /\ requestIdCounter' = requestIdCounter + 1
  /\ reqs' = Append(reqs, NewRequest(type))
  /\ eToWorker' = Append(eToWorker,
                         [type |-> type, requestId |-> requestIdCounter + 1])
  /\ eTimers' = eTimers \cup {requestIdCounter + 1}

EFrame == UNCHANGED <<cvars, wvars, svars>>

\* a main-thread step that does not call updateCanvas
NoRead == eRead' = "none"

\* updateCanvas(): imageData.data.set(this.canvasView); putImageData
updateCanvas ==
  eRead' = IF canvasBuffer = "null" THEN "none" ELSE canvasBuffer

\* handleWorkerMessage calls updateCanvas for every message
UpdatesCanvasOnAny(r) == TRUE

\* handleWorkerMessage calls updateCanvas for a 'rendered' message
UpdatesCanvasOn(r) == r.type = "rendered"

\* initialize() is called once on an engine: it creates the worker
EInitialize ==
  /\ ~eInitCalled
  /\ eInitCalled' = TRUE
  /\ eWorker' = "live"
  /\ ESendRequest("init")
  /\ pendingRequests' = Append(pendingRequests, requestIdCounter + 1)
  /\ NoRead
  /\ UNCHANGED <<eToMain, canvasBuffer, eDestroyCalled, eTerminated>>
  /\ UNCHANGED kvars /\ EFrame

\* sendRequest throws 'Worker not initialized' without a worker
ECall(type) ==
  /\ eWorker # "null"
  /\ ESendRequest(type)
  /\ pendingRequests' = Append(pendingRequests, requestIdCounter + 1)
  /\ NoRead
  /\ UNCHANGED <<eWorker, eInitCalled, eToMain, canvasBuffer, eDestroyCalled,
                 eTerminated>>
  /\ UNCHANGED kvars /\ EFrame

EStartStroke == ECall("startStroke")

EAddPoint == ECall("addPoint")

EEndStroke == ECall("endStroke")

EClear == ECall("clear")

EResize == ECall("resize")

\* destroy(): the destroy request is sent, then pendingRequests is cleared
EDestroy ==
  /\ eWorker # "null"
  /\ ESendRequest("destroy")
  /\ pendingRequests' = <<>>
  /\ canvasBuffer' = "null"
  /\ eDestroyCalled' = TRUE
  /\ NoRead
  /\ UNCHANGED <<eWorker, eInitCalled, eToMain, eTerminated>>
  /\ UNCHANGED kvars /\ EFrame

\* settle the promise of request n and run the code awaiting it
ESettle(n, resolved, why, by, sharedBuffer) ==
  /\ reqs' = [reqs EXCEPT ![n] = [@ EXCEPT
                !.st = IF resolved THEN "resolved" ELSE "rejected",
                !.why = why, !.by = by]]
  /\ pendingRequests' = Without(pendingRequests, n)
  /\ EContinue(reqs[n].type, resolved, sharedBuffer)

\* handleWorkerMessage
EHandleWorkerMessage ==
  /\ eToMain # <<>>
  /\ LET r == Head(eToMain)
         isError == r.type = "error"
         originalType == IF isError THEN r.originalType
                         ELSE ResponseTypeMap(r.type)
         pos == FirstMatch(originalType)
     IN /\ eToMain' = Tail(eToMain)
        /\ IF UpdatesCanvasOn(r) THEN updateCanvas ELSE NoRead
        /\ IF r.type = "rendered" \/ originalType = "" \/ pos = 0
             THEN \* 'rendered' only repaints from canvasView (updateCanvas)
                  UNCHANGED <<reqs, pendingRequests, canvasBuffer, eWorker,
                              eTerminated>>
             ELSE ESettle(pendingRequests[pos], ~isError,
                          IF isError THEN "error" ELSE "response",
                          r.for, r.sharedBuffer)
  /\ UNCHANGED <<eInitCalled, requestIdCounter, eTimers, eToWorker,
                 eDestroyCalled>>
  /\ UNCHANGED kvars /\ EFrame

\* the setTimeout callback of sendRequest, 5000 ms after the request
ETimeout ==
  /\ \E n \in eTimers :
       /\ eTimers' = eTimers \ {n}
       /\ IF \E i \in 1 .. Len(pendingRequests) : pendingRequests[i] = n
            THEN ESettle(n, FALSE, "timeout", 0, FALSE)
            ELSE UNCHANGED <<reqs, pendingRequests, canvasBuffer, eWorker,
                             eTerminated>>
  /\ NoRead
  /\ UNCHANGED <<eInitCalled, requestIdCounter, eToWorker, eToMain,
                 eDestroyCalled>>
  /\ UNCHANGED kvars /\ EFrame

\* ------------------------------------------------- wasmDrawEngineWorker
\* .for names the request a response was produced for; the worker does not
\* put it in the message (bookkeeping)
EResponse(type, m, sharedBuffer) ==
  [type |-> type, originalType |-> "", for |-> m.requestId,
   sharedBuffer |-> sharedBuffer]

EError(m) ==
  [type |-> "error", originalType |-> m.type, for |-> m.requestId,
   sharedBuffer |-> FALSE]

Rendered == [type |-> "rendered", originalType |-> "", for |-> 0,
             sharedBuffer |-> FALSE]

KRunning == eInitCalled /\ ~eTerminated

KFrame ==
  UNCHANGED <<eWorker, eInitCalled, requestIdCounter, pendingRequests, reqs,
              eTimers, canvasBuffer, eDestroyCalled, eTerminated, eRead, cvars,
              wvars, svars>>

\* case 'init', up to the first await (module import or DrawEngine.new)
KInitBegin ==
  /\ KRunning /\ eToWorker # <<>>
  /\ Head(eToWorker).type = "init"
  /\ eToWorker' = Tail(eToWorker)
  /\ kInitAwait' = kInitAwait \cup {Head(eToWorker).requestId}
  /\ UNCHANGED <<eToMain, kModule, kEngine, kView>>
  /\ KFrame

\* case 'init', from the last resumption to postMessage
KInitFinish ==
  /\ KRunning
  /\ \E n \in kInitAwait :
       LET m == [type |-> "init", requestId |-> n]
       IN /\ kInitAwait' = kInitAwait \ {n}
          /\ \E outcome \in {"ok", "noBuffer", "importFail", "createFail"} :
               /\ outcome = "importFail" => ~kModule
               /\ kModule' = (kModule \/ outcome # "importFail")
               /\ kEngine' = (kEngine \/ outcome \in {"ok", "noBuffer"})
               /\ kView' = (kView \/ outcome = "ok")
               /\ eToMain' = Append(eToMain,
                    IF outcome \in {"ok", "noBuffer"}
                      THEN EResponse("initialized", m, kView')
                      ELSE EError(m))
  /\ UNCHANGED eToWorker
  /\ KFrame

\* renderToSharedBuffer followed by the response, or the error response
KReply(m, type, ok) ==
  eToMain' =
    IF ~kEngine \/ ~ok THEN Append(eToMain, EError(m))
    ELSE IF kView THEN eToMain \o <<Rendered, EResponse(type, m, FALSE)>>
    ELSE Append(eToMain, EResponse(type, m, FALSE))

\* cases 'startStroke', 'addPoint', 'endStroke', 'clear'
KDraw(reqType, respType) ==
  /\ KRunning /\ eToWorker # <<>>
  /\ Head(eToWorker).type = reqType
  /\ eToWorker' = Tail(eToWorker)
  /\ \E ok \in BOOLEAN : KReply(Head(eToWorker), respType, ok)
  /\ UNCHANGED kvars
  /\ KFrame

KStartStroke == KDraw("startStroke", "strokeStarted")

KAddPoint == KDraw("addPoint", "pointAdded")

KEndStroke == KDraw("endStroke", "strokeEnded")

KClear == KDraw("clear", "cleared")

\* case 'resize'
KResize ==
  /\ KRunning /\ eToWorker # <<>>
  /\ Head(eToWorker).type = "resize"
  /\ eToWorker' = Tail(eToWorker)
  /\ \E ok \in BOOLEAN, newBuffer \in BOOLEAN :
       /\ kView' = (kView \/ (kEngine /\ ok /\ newBuffer))
       /\ eToMain' =
            IF ~kEngine \/ ~ok THEN Append(eToMain, EError(Head(eToWorker)))
            ELSE IF kView'
              THEN eToMain \o <<Rendered,
                                EResponse("resized", Head(eToWorker), FALSE)>>
              ELSE Append(eToMain, EResponse("resized", Head(eToWorker), FALSE))
  /\ UNCHANGED <<kModule, kEngine, kInitAwait>>
  /\ KFrame

\* case 'destroy'
KDestroy ==
  /\ KRunning /\ eToWorker # <<>>
  /\ Head(eToWorker).type = "destroy"
  /\ eToWorker' = Tail(eToWorker)
  /\ \E freeOk \in BOOLEAN :
       LET ok == ~kEngine \/ freeOk
       IN /\ kEngine' = (kEngine /\ ~ok)
          /\ kView' = (kView /\ ~ok)
          /\ eToMain' = Append(eToMain,
               IF ok THEN EResponse("destroyed", Head(eToWorker), FALSE)
               ELSE EError(Head(eToWorker)))
  /\ UNCHANGED <<kModule, kInitAwait>>
  /\ KFrame

NextEngine ==
  \/ EInitialize \/ EStartStroke \/ EAddPoint \/ EEndStroke \/ EClear
  \/ EResize \/ EDestroy \/ EHandleWorkerMessage \/ ETimeout
  \/ KInitBegin \/ KInitFinish \/ KStartStroke \/ KAddPoint \/ KEndStroke
  \/ KClear \/ KResize \/ KDestroy

SpecEngine == Init /\ [][NextEngine]_vars

\* ---------------------------------------------------- Canvas2DRenderer
\* Number.prototype.toString of an opacity, given in tenths
OpacityToString(o) == CASE o = 10 -> "1" [] o = 5 -> "0.5" [] OTHER -> "0"

\* parseFloat of the strings OpacityToString produces, in tenths
ParseFloat(str) == CASE str = "1" -> 10 [] str = "0.5" -> 5 [] OTHER -> 0

BooleanToString(b) == IF b THEN "true" ELSE "false"

\* Map.prototype.set and Map.prototype.delete
MapSet(m, id, v) == [k \in DOMAIN m \cup {id} |-> IF k = id THEN v ELSE m[k]]

MapDelete(m, id) == [k \in DOMAIN m \ {id} |-> m[k]]

\* Array.prototype.splice(index, 0, x) for an index that is not negative
Splice(q, index, x) ==
  LET k == IF index > Len(q) THEN Len(q) ELSE index
  IN SubSeq(q, 1, k) \o <<x>> \o SubSeq(q, k + 1, Len(q))

\* the payloads a command can carry; a field a command type does not have
\* keeps the value it has here
NoPayload ==
  [type |-> "", layer_id |-> "", npoints |-> 0, px |-> 1, valid |-> TRUE,
   index |-> 0, layer_ids |-> <<>>, opacity |-> 10, blend_mode |-> "normal",
   visible |-> TRUE, transform |-> "identity", commands |-> <<>>]

\* opacity, blend_mode and visible of the UpdateLayerProperties payloads
PropertySets ==
  {[opacity |-> 5, blend_mode |-> "normal", visible |-> TRUE],
   [opacity |-> 10, blend_mode |-> "multiply", visible |-> TRUE],
   [opacity |-> 10, blend_mode |-> "normal", visible |-> FALSE]}

\* the id lists of the ReorderLayers payloads
OrderLists == UNION {[1 .. n -> LayerIds] : n \in 0 .. Cardinality(LayerIds)}

\* DrawCommand, without Batch
SimpleCommands ==
  {[NoPayload EXCEPT !.type = t] :
     t \in {"ClearCanvas", "ShowSelection", "ClearSelection"}}
  \cup {[NoPayload EXCEPT !.type = "DrawPath", !.layer_id = id,
                          !.npoints = n, !.px = p] :
          id \in LayerIds, n \in 1 .. 2, p \in Pixels}
  \cup {[NoPayload EXCEPT !.type = "UpdateRasterArea", !.layer_id = id,
                          !.valid = v, !.px = p] :
          id \in LayerIds, v \in BOOLEAN, p \in Pixels}
  \cup {[NoPayload EXCEPT !.type = "AddLayer", !.layer_id = id, !.index = i] :
          id \in LayerIds, i \in 0 .. Cardinality(LayerIds) - 1}
  \cup {[NoPayload EXCEPT !.type = "RemoveLayer", !.layer_id = id] :
          id \in LayerIds}
  \cup {[NoPayload EXCEPT !.type = "ReorderLayers", !.layer_ids = ids] :
          ids \in OrderLists}
  \cup {[NoPayload EXCEPT !.type = "UpdateLayerProperties", !.layer_id = id,
                          !.opacity = ps.opacity,
                          !.blend_mode = ps.blend_mode,
                          !.visible = ps.visible] :
          id \in LayerIds, ps \in PropertySets}
  \cup {[NoPayload EXCEPT !.type = "ApplyTransform", !.layer_id = id,
                          !.transform = tr] :
          id \in LayerIds, tr \in {"identity", "translate"}}

\* DrawCommand: a Batch of simple commands
Batch(cs) == [NoPayload EXCEPT !.type = "Batch", !.commands = cs]

\* the renderer's fields while a command list is executed; .threw is set once
\* a command has thrown
RState == [layers |-> layers, order |-> layerOrder, main |-> rMain,
           threw |-> FALSE]

getOrCreateLayer(st, layerId) ==
  IF layerId \in DOMAIN st.layers THEN st
  ELSE [st EXCEPT !.layers = MapSet(@, layerId, createLayerCanvas),
                  !.order = Append(@, layerId)]

\* the path is stroked, with an opaque colour, over the pixel payload.px
drawPath(st, payload) ==
  LET s1 == getOrCreateLayer(st, payload.layer_id)
  IN IF payload.npoints < 2 THEN s1
     ELSE [s1 EXCEPT !.layers[payload.layer_id].ink[payload.px] = 1]

\* new ImageData throws when pixel_data does not hold 4 * width * height bytes
updateRasterArea(st, payload) ==
  LET s1 == getOrCreateLayer(st, payload.layer_id)
  IN IF ~payload.valid THEN [s1 EXCEPT !.threw = TRUE]
     ELSE [s1 EXCEPT !.layers[payload.layer_id].ink[payload.px] = 2]

addLayer(st, payload) ==
  [st EXCEPT
     !.layers = IF payload.layer_id \in DOMAIN @ THEN @
                ELSE MapSet(@, payload.layer_id, createLayerCanvas),
     !.order = Splice(SelectSeq(@, LAMBDA id : id # payload.layer_id),
                      payload.index, payload.layer_id)]

removeLayer(st, payload) ==
  [st EXCEPT !.layers = MapDelete(@, payload.layer_id),
             !.order = SelectSeq(@, LAMBDA id : id # payload.layer_id)]

reorderLayers(st, payload) == [st EXCEPT !.order = payload.layer_ids]

updateLayerProperties(st, payload) ==
  IF payload.layer_id \notin DOMAIN st.layers THEN st
  ELSE [st EXCEPT
          !.layers[payload.layer_id].opacity = OpacityToString(payload.opacity),
          !.layers[payload.layer_id].blendMode = payload.blend_mode,
          !.layers[payload.layer_id].visible = BooleanToString(payload.visible)]

\* the layer's content redrawn under the transform: "translate" moves it by
\* one pixel, and what leaves the canvas is lost
Transformed(ink, transform) ==
  IF transform = "identity" THEN ink
  ELSE [p \in Pixels |-> IF p = 1 THEN 0 ELSE ink[p - 1]]

applyTransform(st, payload) ==
  IF payload.layer_id \notin DOMAIN st.layers THEN st
  ELSE [st EXCEPT !.layers[payload.layer_id].ink =
                     Transformed(@, payload.transform)]

\* clear(): the main canvas and every layer canvas are cleared
clear(st) ==
  IF rCtx = "null" THEN st
  ELSE [st EXCEPT !.main = Blank,
                  !.layers = [id \in DOMAIN @ |->
                                [@[id] EXCEPT !.ink = [p \in Pixels |-> 0]]]]

RECURSIVE executeCommand(_, _)
\* the loop of executeCommands and of case "Batch", from command i on; a throw
\* ends it
RECURSIVE ExecuteFrom(_, _, _)
ExecuteFrom(st, commands, i) ==
  IF i > Len(commands) \/ st.threw THEN st
  ELSE ExecuteFrom(executeCommand(st, commands[i]), commands, i + 1)

executeCommand(st, command) ==
  CASE command.type = "ClearCanvas" -> clear(st)
    [] command.type = "DrawPath" -> drawPath(st, command)
    [] command.type = "UpdateRasterArea" -> updateRasterArea(st, command)
    [] command.type = "AddLayer" -> addLayer(st, command)
    [] command.type = "RemoveLayer" -> removeLayer(st, command)
    [] command.type = "ReorderLayers" -> reorderLayers(st, command)
    [] command.type = "UpdateLayerProperties" ->
         updateLayerProperties(st, command)
    [] command.type = "ApplyTransform" -> applyTransform(st, command)
    [] command.type = "Batch" -> ExecuteFrom(st, command.commands, 1)
    [] OTHER -> st

getCompositeOperation(blendMode) ==
  CASE blendMode = "normal" -> "source-over"
    [] blendMode = "multiply" -> "multiply"
    [] blendMode = "screen" -> "screen"
    [] blendMode = "overlay" -> "overlay"
    [] OTHER -> "source-over"

\* ctx.drawImage(layer, 0, 0) under globalAlpha and globalCompositeOperation:
\* a transparent source pixel leaves the destination pixel as it is
drawImage(main, layer, alpha, operation) ==
  [p \in Pixels |->
     IF layer.ink[p] = 0 THEN main[p]
     ELSE Append(main[p], <<layer.ink[p], alpha, operation>>)]

\* this.ctx.clearRect over the whole main canvas
ClearRectSkipped(main) == main

ClearRect(main) == Blank

\* the loop of composite, from position i of layerOrder on
RECURSIVE CompositeFrom(_, _, _)
CompositeFrom(st, main, i) ==
  IF i > Len(st.order) THEN main
  ELSE IF st.order[i] \notin DOMAIN st.layers
    THEN CompositeFrom(st, main, i + 1)
  ELSE LET layer == st.layers[st.order[i]]
           opacity == ParseFloat(IF Truthy(layer.opacity) THEN layer.opacity
                                 ELSE "1")
           blendMode == IF Truthy(layer.blendMode) THEN layer.blendMode
                        ELSE "normal"
           visible == layer.visible # "false"
       IN IF ~visible THEN CompositeFrom(st, main, i + 1)
          ELSE CompositeFrom(st, drawImage(main, layer, opacity,
                                           getCompositeOperation(blendMode)),
                             i + 1)

\* composite(): the pixels of the main canvas afterwards
composite(st) ==
  IF rCtx = "null" THEN st.main
  ELSE CompositeFrom(st, ClearRect(st.main), 1)

RFrame ==
  UNCHANGED <<cvars, wvars, evars, kvars, dvars, uvars, hvars, pvars, gvars,
              avars, xvars>>

\* init(canvas); getContext("2d") gives null on a canvas that already has a
\* context of another kind, and init then throws
RInit ==
  /\ rCtx = "null" /\ rLast.type = "none"
  /\ \E ctxOk \in BOOLEAN :
       /\ rCtx' = IF ctxOk THEN "set" ELSE "null"
       /\ rLast' = [rLast EXCEPT !.type = "init", !.threw = ~ctxOk]
  /\ UNCHANGED <<layers, layerOrder, rMain, rCmds>>
  /\ RFrame

\* executeCommands(commands), called by useHybridDrawing on a renderer whose
\* init has completed, with a list of one command: a simple command or a
\* Batch of simple commands
RExecuteCommands ==
  /\ rCtx = "set"
  /\ \E n \in 1 .. MaxCmds - rCmds :
       \E cs \in [1 .. n -> SimpleCommands], batched \in BOOLEAN :
         /\ n > 1 => batched
         /\ LET command == IF batched THEN Batch(cs) ELSE cs[1]
                st == ExecuteFrom(RState, <<command>>, 1)
            IN /\ layers' = st.layers
               /\ layerOrder' = st.order
               /\ rMain' = IF st.threw THEN st.main ELSE composite(st)
               /\ rCmds' = rCmds + n
               /\ rLast' = [type |-> command.type,
                            layer |-> command.layer_id, threw |-> st.threw]
  /\ UNCHANGED rCtx
  /\ RFrame

\* destroy()
RDestroy ==
  /\ rCtx = "set"
  /\ rCtx' = "null"
  /\ layers' = NoLayers
  /\ layerOrder' = <<>>
  /\ rLast' = [rLast EXCEPT !.type = "destroy", !.threw = FALSE]
  /\ UNCHANGED <<rMain, rCmds>>
  /\ RFrame

NextRenderer == RInit \/ RExecuteCommands \/ RDestroy

SpecRenderer == Init /\ [][NextRenderer]_vars

\* ------------------------- the drawing backend behind useDrawingEngine
\* (Rust, src-tauri; modelled from sections 4.3 and 5 of the specification)
Inside(r, x) == x >= r.x /\ x < r.x + r.width

\* the rectangles a command can touch, clipped to the surface
Rects ==
  {r \in [x : Xs, width : 1 .. SurfaceWidth] : r.x + r.width <= SurfaceWidth}

\* dirty regions are merged into their bounding rectangle
Merge(r1, r2) ==
  IF r1.width = 0 THEN r2
  ELSE IF r2.width = 0 THEN r1
  ELSE LET lo == IF r1.x < r2.x THEN r1.x ELSE r2.x
           hi == IF r1.x + r1.width > r2.x + r2.width
                   THEN r1.x + r1.width ELSE r2.x + r2.width
       IN [x |-> lo, width |-> hi - lo]

\* the compositor at one pixel: the ink of the topmost painted layer
ComposeAt(store, x) ==
  LET painted == {l \in DLayers : store[l][x] # 0}
  IN IF painted = {} THEN 0
     ELSE store[CHOOSE l \in painted : \A k \in painted : k <= l][x]

\* full recomposition: the whole output buffer
FullRecompose(store) == [x \in Xs |-> ComposeAt(store, x)]

\* bounded recomposition: the pixels of region r only, left to right
BoundedRecompose(store, r) ==
  [i \in 1 .. r.width |-> ComposeAt(store, r.x + i - 1)]

DFrame ==
  UNCHANGED <<cvars, wvars, evars, kvars, rvars, uvars, hvars, pvars, gvars,
              avars, xvars>>

\* a stroke or eraser command executed by the backend on a layer
BDraw ==
  /\ dOps < MaxDOps
  /\ \E l \in DLayers, r \in Rects, erase \in BOOLEAN :
       /\ dStore' = [dStore EXCEPT ![l] =
                       [x \in Xs |-> IF ~Inside(r, x) THEN @[x]
                                     ELSE IF erase THEN 0 ELSE l]]
       /\ dDirty' = Merge(dDirty, r)
  /\ dOps' = dOps + 1
  /\ UNCHANGED <<dCanvas, dQueue, dLast>>
  /\ DFrame

\* the oldest request not yet served
Unserved == {i \in 1 .. Len(dQueue) : dQueue[i].st = "sent"}

\* getDiffRenderResult / getRenderResult executed by the backend, in arrival
\* order; .full is the full recomposition at that moment (bookkeeping, not
\* part of the result)
BServe ==
  /\ Unserved # {}
  /\ LET i == CHOOSE k \in Unserved : \A j \in Unserved : k <= j
         q == dQueue[i]
     IN \E ok \in BOOLEAN, reset \in BOOLEAN :
          /\ q.useDiff => reset
          /\ dQueue' = [dQueue EXCEPT ![i] =
               [useDiff |-> q.useDiff, st |-> "served", ok |-> ok,
                region |-> IF ~ok THEN NoRegion
                           ELSE IF q.useDiff THEN dDirty
                           ELSE [x |-> 0, width |-> SurfaceWidth],
                data |-> IF ~ok THEN <<>>
                         ELSE IF q.useDiff THEN BoundedRecompose(dStore, dDirty)
                         ELSE BoundedRecompose(dStore,
                                [x |-> 0, width |-> SurfaceWidth]),
                full |-> FullRecompose(dStore)]]
          /\ dDirty' = IF ok /\ reset THEN NoRegion ELSE dDirty
  /\ UNCHANGED <<dStore, dCanvas, dOps, dLast>>
  /\ DFrame

\* ------------------------------------------- useDrawingEngine.updateCanvas
\* updateCanvas(useDiff), up to its await
DUpdateCanvasBegin ==
  /\ dOps < MaxDOps
  /\ \E useDiff \in BOOLEAN :
       dQueue' = Append(dQueue,
         [useDiff |-> useDiff, st |-> "sent", ok |-> FALSE,
          region |-> NoRegion, data |-> <<>>, full |-> <<>>])
  /\ dOps' = dOps + 1
  /\ UNCHANGED <<dStore, dDirty, dCanvas, dLast>>
  /\ DFrame

\* the x the diff's image data is put at
PutAtOrigin(region) == 0

PutAt(region) == region.x

\* ctx.putImageData(imageData, dx, 0) of image data width pixels wide
PutImageData(canvas, data, width, dx) ==
  [x \in Xs |-> IF x >= dx /\ x < dx + width THEN data[x - dx + 1]
                ELSE canvas[x]]

\* updateCanvas, from the resumption after its await
DUpdateCanvasFinish ==
  /\ dQueue # <<>>
  /\ Head(dQueue).st = "served"
  /\ LET result == Head(dQueue)
     IN /\ dQueue' = Tail(dQueue)
        /\ IF result.useDiff
             THEN IF result.ok /\ result.region.width > 0
                    THEN /\ dCanvas' = PutImageData(dCanvas, result.data,
                                         Len(result.data), PutAt(result.region))
                         /\ dLast' = result.region
                    ELSE UNCHANGED <<dCanvas, dLast>>
             ELSE /\ dCanvas' = IF result.ok
                                  THEN PutImageData(dCanvas, result.data,
                                                    Len(result.data), 0)
                                  ELSE dCanvas
                  /\ UNCHANGED dLast
  /\ UNCHANGED <<dStore, dDirty, dOps>>
  /\ DFrame

NextDiff == BDraw \/ BServe \/ DUpdateCanvasBegin \/ DUpdateCanvasFinish

SpecDiff == Init /\ [][NextDiff]_vars

\* ------------------------------------------------------------ useCanvas
UFrame ==
  UNCHANGED <<cvars, wvars, evars, kvars, rvars, dvars, hvars, pvars, gvars,
              avars, xvars>>

NewContext(kind) == [kind |-> kind, destroyed |-> FALSE]

\* drawingContextRef.current.destroy(), when the ref is set
Destroyed(created, ref) ==
  IF ref = 0 THEN created ELSE [created EXCEPT ![ref].destroyed = TRUE]

\* the part of the hook's state an initEngine run works on
UState == [created |-> uCreated, ref |-> uContextRef, ready |-> uIsReady,
           mode |-> uCanvasMode]

\* canvas.getContext('2d') throws on a canvas whose control was transferred
\* to an OffscreenCanvas
GetContext2D(mode) == mode # "placeholder"

\* drawingContextRef.current = context; setIsReady(true), for a context made
\* on the 2d context of the canvas
Install(h, kind) ==
  [h EXCEPT !.created = Append(@, NewContext(kind)),
            !.ref = Len(h.created) + 1, !.ready = TRUE, !.mode = "2d"]

\* the fallback in the catch block of initEngine succeeds
FallbackOk(h, engine) == engine # "canvas2d" /\ GetContext2D(h.mode)

\* the catch block of initEngine
Fallback(h, engine) ==
  IF FallbackOk(h, engine) THEN Install(h, "canvas2d") ELSE h

UAssign(h) ==
  /\ uCreated' = h.created
  /\ uContextRef' = h.ref
  /\ uIsReady' = h.ready
  /\ uCanvasMode' = h.mode

Run(engine, stage, primary, fallback, context) ==
  [engine |-> engine, stage |-> stage, primary |-> primary,
   fallback |-> fallback, context |-> context]

\* the engine initialization effect: the cleanup of the previous run, then
\* initEngine up to its first await that waits for something
UInitEngine ==
  /\ uMounted /\ Len(uRuns) < MaxEffects
  /\ \E engine \in Engines :
       LET h0 == [created |-> Destroyed(uCreated, uContextRef), ref |-> 0,
                  ready |-> FALSE, mode |-> uCanvasMode]
       IN /\ uEngine' = engine
          /\ CASE engine = "canvas2d" ->
                    IF GetContext2D(h0.mode)
                      THEN /\ UAssign(Install(h0, "canvas2d"))
                           /\ uRuns' = Append(uRuns,
                                Run(engine, "done", "ok", "none", 0))
                      ELSE /\ UAssign(h0)
                           /\ uRuns' = Append(uRuns,
                                Run(engine, "done", "failed", "none", 0))
               [] engine = "wasm" ->
                    /\ UAssign(h0)
                    /\ uRuns' = Append(uRuns,
                         Run(engine, "awaiting", "pending", "none", 0))
               [] engine = "wasmWorker" ->
                    IF h0.mode = "none"
                      THEN \* transferControlToOffscreen, new Worker
                           /\ UAssign([h0 EXCEPT
                                !.mode = "placeholder",
                                !.created = Append(@, NewContext(engine))])
                           /\ uRuns' = Append(uRuns,
                                Run(engine, "awaiting", "pending", "none",
                                    Len(h0.created) + 1))
                      ELSE \* transferControlToOffscreen throws
                           /\ UAssign(Fallback(h0, engine))
                           /\ uRuns' = Append(uRuns,
                                Run(engine, "done", "failed",
                                    IF FallbackOk(h0, engine) THEN "ok"
                                    ELSE "failed", 0))
  /\ UNCHANGED <<uMounted, uIsDrawing, uStrokeRef, uStartPending, uReqs,
                 uLast>>
  /\ UFrame

\* initEngine from the settling of createWasmDirectContext or
\* createWasmCanvasContext to its end
UInitEngineResume ==
  /\ \E r \in 1 .. Len(uRuns) :
       /\ uRuns[r].stage = "awaiting"
       /\ \E ok \in BOOLEAN :
            LET engine == uRuns[r].engine
                h == IF ~ok THEN Fallback(UState, engine)
                     ELSE IF engine = "wasm" THEN Install(UState, engine)
                     ELSE [UState EXCEPT !.ref = uRuns[r].context,
                                         !.ready = TRUE]
            IN /\ (ok /\ engine = "wasm") => GetContext2D(uCanvasMode)
               /\ UAssign(h)
               /\ uRuns' = [uRuns EXCEPT ![r] =
                    Run(engine, "done", IF ok THEN "ok" ELSE "failed",
                        IF ok THEN "none"
                        ELSE IF FallbackOk(UState, engine) THEN "ok"
                        ELSE "failed", @.context)]
  /\ UNCHANGED <<uMounted, uEngine, uIsDrawing, uStrokeRef, uStartPending,
                 uReqs, uLast>>
  /\ UFrame

\* the cleanup of the effect when the hook unmounts
UUnmount ==
  /\ uMounted /\ uRuns # <<>>
  /\ uMounted' = FALSE
  /\ uCreated' = Destroyed(uCreated, uContextRef)
  /\ uContextRef' = 0
  /\ UNCHANGED <<uEngine, uCanvasMode, uRuns, uIsReady, uIsDrawing,
                 uStrokeRef, uStartPending, uReqs, uLast>>
  /\ UFrame

URequest(op, forwarded) ==
  /\ uMounted /\ uReqs < MaxUReqs
  /\ uReqs' = uReqs + 1
  /\ uLast' = [op |-> op,
               outcome |-> IF forwarded THEN "forwarded" ELSE "ignored"]
  /\ UNCHANGED <<uMounted, uEngine, uCanvasMode, uCreated, uContextRef,
                 uRuns, uIsReady>>
  /\ UFrame

\* startDrawing, with the pen or the eraser, up to the await of startStroke
UStartDrawing ==
  LET go == uIsReady /\ uContextRef # 0
  IN /\ URequest("startDrawing", go)
     /\ uIsDrawing' = (uIsDrawing \/ go)
     /\ uStartPending' = IF go THEN uStartPending + 1 ELSE uStartPending
     /\ UNCHANGED uStrokeRef

\* startDrawing after the await: the stroke id is kept unless startStroke threw
UStartStrokeSettles ==
  /\ uStartPending > 0
  /\ uStartPending' = uStartPending - 1
  /\ \E ok \in BOOLEAN : uStrokeRef' = (uStrokeRef \/ ok)
  /\ UNCHANGED <<uMounted, uEngine, uCanvasMode, uCreated, uContextRef,
                 uRuns, uIsReady, uIsDrawing, uReqs, uLast>>
  /\ UFrame

UDraw ==
  /\ URequest("draw",
              uIsDrawing /\ uIsReady /\ uContextRef # 0 /\ uStrokeRef)
  /\ UNCHANGED <<uIsDrawing, uStrokeRef, uStartPending>>

\* endDrawing; the stroke id is dropped unless endStroke threw
UEndDrawing ==
  LET go == uIsDrawing /\ uIsReady /\ uContextRef # 0 /\ uStrokeRef
  IN /\ URequest("endDrawing", go)
     /\ uIsDrawing' = (uIsDrawing /\ ~go)
     /\ \E ok \in BOOLEAN : uStrokeRef' = (uStrokeRef /\ ~(go /\ ok))
     /\ UNCHANGED uStartPending

UClear ==
  /\ URequest("clear", uContextRef # 0)
  /\ UNCHANGED <<uIsDrawing, uStrokeRef, uStartPending>>

NextUseCanvas ==
  \/ UInitEngine \/ UInitEngineResume \/ UUnmount
  \/ UStartDrawing \/ UStartStrokeSettles \/ UDraw \/ UEndDrawing \/ UClear

SpecUseCanvas == Init /\ [][NextUseCanvas]_vars

\* ------------------------------------------------------- useHybridDrawing
HFrame ==
  UNCHANGED <<cvars, wvars, evars, kvars, dvars, uvars, pvars, gvars,
              avars, xvars>>

\* the renderer is left alone
HRendererIdle == UNCHANGED rvars

HEvent(op, event, points, sent) ==
  /\ hOps < MaxHOps
  /\ hOps' = hOps + 1
  /\ hLast' = [op |-> op, event |-> event, points |-> points, sent |-> sent]
  /\ HRendererIdle
  /\ HFrame

\* startDrawing(e)
HStartDrawing ==
  /\ HEvent("startDrawing", "pointerdown", 1, FALSE)
  /\ hIsDrawing' = TRUE
  /\ currentStroke' = <<hOps + 1>>
  /\ UNCHANGED <<hPending, commandQueue>>

\* draw(e)
HDraw ==
  /\ Len(currentStroke) < MaxPoints
  /\ currentStroke' = IF hIsDrawing THEN Append(currentStroke, hOps + 1)
                      ELSE currentStroke
  /\ HEvent("draw", "pointermove", Len(currentStroke'), FALSE)
  /\ UNCHANGED <<hIsDrawing, hPending, commandQueue>>

\* the pointer events the Canvas component hands to endDrawing
EndEvents == {"pointerup", "pointerleave", "pointercancel"}

\* endDrawing(), up to the await of HybridDrawingEngine.drawStroke
HEndDrawing ==
  LET dropped == ~hIsDrawing \/ Len(currentStroke) < 2
  IN /\ \E event \in EndEvents :
          HEvent("endDrawing", event, Len(currentStroke), ~dropped)
     /\ IF dropped
          THEN /\ hIsDrawing' = FALSE
               /\ currentStroke' = <<>>
               /\ UNCHANGED hPending
          ELSE /\ hPending' = Append(hPending, currentStroke)
               /\ UNCHANGED <<hIsDrawing, currentStroke>>
     /\ UNCHANGED commandQueue

\* process_user_input for a DrawStroke input (Rust, src-tauri): the command
\* lists it can answer with for a stroke of n points
ProcessUserInput(n) ==
  {<<[NoPayload EXCEPT !.type = "DrawPath", !.layer_id = id, !.npoints = n,
                       !.px = p]>> : id \in LayerIds, p \in Pixels}

\* endDrawing() after the await, and the command queue effect that the new
\* commandQueue triggers
HDrawStrokeSettles ==
  /\ hPending # <<>>
  /\ hPending' = Tail(hPending)
  /\ hIsDrawing' = FALSE
  /\ currentStroke' = <<>>
  /\ \E ok \in BOOLEAN :
       IF ~ok
         THEN UNCHANGED <<commandQueue, rvars>>
         ELSE \E commands \in ProcessUserInput(Len(Head(hPending))) :
                LET queue == commandQueue \o commands
                    st == ExecuteFrom(RState, queue, 1)
                IN IF rCtx # "set"
                     THEN /\ commandQueue' = queue
                          /\ UNCHANGED rvars
                     ELSE /\ commandQueue' = <<>>
                          /\ layers' = st.layers
                          /\ layerOrder' = st.order
                          /\ rMain' = composite(st)
                          /\ rCmds' = rCmds + Len(queue)
                          /\ rLast' = [type |-> queue[Len(queue)].type,
                                       layer |-> queue[Len(queue)].layer_id,
                                       threw |-> FALSE]
                          /\ UNCHANGED rCtx
  /\ UNCHANGED <<hOps, hLast>>
  /\ HFrame

\* RInit is the initRenderer effect of the hook
NextHybrid ==
  \/ RInit \/ HStartDrawing \/ HDraw \/ HEndDrawing \/ HDrawStrokeSettles

SpecHybrid == Init /\ [][NextHybrid]_vars

\* ------------------------------------------- startStroke of the backends
PFrame ==
  UNCHANGED <<cvars, wvars, evars, kvars, rvars, dvars, uvars, hvars, gvars,
              avars, xvars>>

typeof(n) == IF n.kind = "undefined" THEN "undefined" ELSE "number"

isNaN(n) == n.kind = "NaN"

Threw == [threw |-> TRUE, stored |-> FALSE]

\* activeStrokes.set(strokeId, ...); return strokeId
Stored == [threw |-> FALSE, stored |-> TRUE]

\* wasmEngine.startStroke of useWasmCanvas
WasmEngineStartStroke(point) ==
  IF \/ typeof(point.x) # "number" \/ typeof(point.y) # "number"
     \/ isNaN(point.x) \/ isNaN(point.y)
    THEN Threw
    ELSE Stored

\* WorkerContext.startStroke; a failing drawSinglePoint is caught
WorkerStartStroke(point, drawingContext) ==
  IF ~drawingContext THEN Threw ELSE Stored

\* Canvas2DDrawingContext.startStroke; ctx.arc returns without drawing when
\* an argument is not finite
Canvas2DStartStroke(point) == Stored

StartStroke ==
  /\ \E backend \in Backends, point \in Points, ready \in BOOLEAN :
       /\ backend # "wasmCanvasWorker" => ready
       /\ strokeCall' = [backend |-> backend, point |-> point,
                         ready |-> ready]
       /\ strokeOutcome' =
            CASE backend = "useWasmCanvas" -> WasmEngineStartStroke(point)
              [] backend = "wasmCanvasWorker" ->
                   WorkerStartStroke(point, ready)
              [] backend = "canvas2dContext" -> Canvas2DStartStroke(point)
  /\ UNCHANGED <<lineCall, linePoints>>
  /\ PFrame

SpecStartStroke == Init /\ [][StartStroke]_vars

\* ------------------------------------------------------------- drawLine
\* distance ** 2, for end points with integer coordinates
DistanceSquared(x1, y1, x2, y2) ==
  (x2 - x1) * (x2 - x1) + (y2 - y1) * (y2 - y1)

\* Math.ceil(Math.sqrt(n) / 2): the least k with 2 * k >= sqrt(n)
CeilHalfSqrt(n) ==
  CHOOSE k \in 0 .. n : 4 * k * k >= n /\ (k > 0 => 4 * (k - 1) * (k - 1) < n)

Max(a, b) == IF a >= b THEN a ELSE b

\* the step count with Math.floor in the place of Math.ceil
StepsRoundedDown(x1, y1, x2, y2) ==
  Max(2, CHOOSE k \in 0 .. DistanceSquared(x1, y1, x2, y2) :
           /\ 4 * k * k <= DistanceSquared(x1, y1, x2, y2)
           /\ 4 * (k + 1) * (k + 1) > DistanceSquared(x1, y1, x2, y2))

\* const steps = Math.max(2, Math.ceil(distance / 2))
Steps(x1, y1, x2, y2) == Max(2, CeilHalfSqrt(DistanceSquared(x1, y1, x2, y2)))

\* the loop of drawLine: point i is (x1 + (x2 - x1) * i / steps,
\* y1 + (y2 - y1) * i / steps); both coordinates are kept times steps
Interpolated(x1, y1, x2, y2) ==
  LET steps == Steps(x1, y1, x2, y2)
  IN [steps |-> steps,
      points |-> [k \in 1 .. steps + 1 |->
                    [x |-> x1 * steps + (x2 - x1) * (k - 1),
                     y |-> y1 * steps + (y2 - y1) * (k - 1)]]]

\* drawLine(x1, y1, x2, y2, tool, color)
DrawLine ==
  /\ \E x1 \in Coords, y1 \in Coords, x2 \in Coords, y2 \in Coords :
       /\ lineCall' = [called |-> TRUE, x1 |-> x1, y1 |-> y1, x2 |-> x2,
                       y2 |-> y2]
       /\ linePoints' = Interpolated(x1, y1, x2, y2)
  /\ UNCHANGED <<strokeCall, strokeOutcome>>
  /\ PFrame

SpecDrawLine == Init /\ [][DrawLine]_vars

\* ------------------------------------- useDrawingEngine pointer handlers
GFrame ==
  UNCHANGED <<cvars, wvars, evars, kvars, rvars, uvars, hvars, pvars, avars,
              xvars>>

\* initEngine(width, height)
GInitEngine ==
  /\ ~gInitialized
  /\ \E ok \in BOOLEAN : gInitialized' = ok
  /\ UNCHANGED <<gIsDrawing, drawCommands, gOps, gLast, dvars>>
  /\ GFrame

\* sendCommand(command), up to its await; it throws when the engine is not
\* initialized
SendCommand(type) ==
  drawCommands' = IF gInitialized
                    THEN Append(drawCommands, [type |-> type, st |-> "sent"])
                    ELSE drawCommands

GEvent(op, sent) ==
  /\ gOps < MaxGOps
  /\ gOps' = gOps + 1
  /\ gLast' = [op |-> op, sent |-> sent]
  /\ UNCHANGED <<gInitialized, dvars>>
  /\ GFrame

\* handlePointerDown, up to the await of beginStroke
GPointerDown ==
  /\ GEvent("pointerdown", gInitialized)
  /\ gIsDrawing' = TRUE
  /\ SendCommand("beginStroke")

\* handlePointerMove, up to the await of continueStroke
GPointerMove ==
  /\ GEvent("pointermove", gIsDrawing /\ gInitialized)
  /\ IF gIsDrawing THEN SendCommand("continueStroke")
     ELSE UNCHANGED drawCommands
  /\ UNCHANGED gIsDrawing

\* handlePointerUp, up to the await of endStroke
GPointerUp ==
  /\ GEvent("pointerup", gIsDrawing /\ gInitialized)
  /\ IF gIsDrawing THEN SendCommand("endStroke")
     ELSE UNCHANGED drawCommands
  /\ gIsDrawing' = FALSE

\* draw_command executed by the backend (Rust, src-tauri): a stroke command
\* paints on a layer, and the call answers ok or error
BDrawCommand ==
  /\ \E i \in 1 .. Len(drawCommands) :
       /\ drawCommands[i].st = "sent"
       /\ \E ok \in BOOLEAN :
            /\ drawCommands' = [drawCommands EXCEPT
                 ![i].st = IF ok THEN "ok" ELSE "error"]
            /\ IF ok /\ drawCommands[i].type # "endStroke"
                 THEN \E l \in DLayers, r \in Rects :
                        /\ dStore' = [dStore EXCEPT ![l] =
                             [x \in Xs |-> IF Inside(r, x) THEN l ELSE @[x]]]
                        /\ dDirty' = Merge(dDirty, r)
                 ELSE UNCHANGED <<dStore, dDirty>>
  /\ UNCHANGED <<gInitialized, gIsDrawing, gOps, gLast, dCanvas, dQueue,
                 dOps, dLast>>
  /\ GFrame

\* a pointer handler after the await of its command: sendCommand throws on
\* an error result, otherwise updateCanvas() is called (up to its await)
GCommandSettles ==
  /\ \E i \in 1 .. Len(drawCommands) :
       /\ drawCommands[i].st # "sent"
       /\ drawCommands' = RemoveAt(drawCommands, i)
       /\ dQueue' = IF drawCommands[i].st = "ok"
                      THEN Append(dQueue,
                             [useDiff |-> TRUE, st |-> "sent", ok |-> FALSE,
                              region |-> NoRegion, data |-> <<>>,
                              full |-> <<>>])
                      ELSE dQueue
  /\ UNCHANGED <<gInitialized, gIsDrawing, gOps, gLast, dStore, dDirty,
                 dCanvas, dOps, dLast>>
  /\ GFrame

NextPointer ==
  \/ GInitEngine \/ GPointerDown \/ GPointerMove \/ GPointerUp
  \/ BDrawCommand \/ GCommandSettles \/ BServe \/ DUpdateCanvasFinish

SpecPointer == Init /\ [][NextPointer]_vars

\* ------------------------------------------------------- the layer panels
AFrame ==
  UNCHANGED <<cvars, wvars, evars, kvars, rvars, dvars, uvars, hvars, pvars,
              gvars, xvars>>

\* a handler up to its await: it keeps the layers of the render it was made in
Request(op, count) == [op |-> op, captured |-> count]

\* the layer count a handler sets once the backend has answered ok
Settled(request) ==
  IF request.op = "create" THEN request.captured + 1
  ELSE request.captured - 1

\* const canAddLayer = layers.length < maxLayers
canAddLayer == lpLayers < maxLayers

\* the create button is disabled while a creation is in progress
isCreating == \E i \in 1 .. Len(lpPending) : lpPending[i].op = "create"

\* LayerPanel.handleCreateLayer, up to the await of createDrawingLayer
LPCreateLayer ==
  /\ canAddLayer /\ ~isCreating /\ Len(lpPending) < MaxPending
  /\ lpPending' = Append(lpPending, Request("create", lpLayers))
  /\ UNCHANGED <<lpLayers, leLayers, lePending, createCalls, mMounted,
                 drawingState, initRenderer>>
  /\ AFrame

\* LayerPanel.handleDeleteLayer, up to the await of removeLayer
LPDeleteLayer ==
  /\ lpLayers > 0 /\ Len(lpPending) < MaxPending
  /\ lpPending' = Append(lpPending, Request("delete", lpLayers))
  /\ UNCHANGED <<lpLayers, leLayers, lePending, createCalls, mMounted,
                 drawingState, initRenderer>>
  /\ AFrame

\* either handler of LayerPanel after its await
LPSettles ==
  /\ \E i \in 1 .. Len(lpPending), ok \in BOOLEAN :
       /\ lpPending' = RemoveAt(lpPending, i)
       /\ lpLayers' = IF ok THEN Settled(lpPending[i]) ELSE lpLayers
  /\ UNCHANGED <<leLayers, lePending, createCalls, mMounted, drawingState,
                 initRenderer>>
  /\ AFrame

\* LayerPanelDrawingEngine.handleAddLayer, up to the await of createLayer
LEAddLayer ==
  /\ leLayers < LayerCap /\ Len(lePending) < MaxPending
  /\ lePending' = Append(lePending, Request("create", leLayers))
  /\ UNCHANGED <<lpLayers, lpPending, leLayers, createCalls, mMounted,
                 drawingState, initRenderer>>
  /\ AFrame

\* LayerPanelDrawingEngine.handleDeleteLayer, up to the await of deleteLayer
LEDeleteLayer ==
  /\ leLayers > 1 /\ Len(lePending) < MaxPending
  /\ lePending' = Append(lePending, Request("delete", leLayers))
  /\ UNCHANGED <<lpLayers, lpPending, leLayers, createCalls, mMounted,
                 drawingState, initRenderer>>
  /\ AFrame

\* either handler of LayerPanelDrawingEngine after its await
LESettles ==
  /\ \E i \in 1 .. Len(lePending), ok \in BOOLEAN :
       /\ lePending' = RemoveAt(lePending, i)
       /\ leLayers' = IF ok THEN Settled(lePending[i]) ELSE leLayers
  /\ UNCHANGED <<lpLayers, lpPending, createCalls, mMounted, drawingState,
                 initRenderer>>
  /\ AFrame

NextLayerPanels ==
  \/ LPCreateLayer \/ LPDeleteLayer \/ LPSettles
  \/ LEAddLayer \/ LEDeleteLayer \/ LESettles

SpecLayerPanels == Init /\ [][NextLayerPanels]_vars

\* ---------------------------------------------------------- createProject
\* an id made by the backend for its n-th invocation, or `project-${Date.now()}`
Id(from, n) == [from |-> from, n |-> n]
NoProject == [id |-> Id("none", 0), name |-> 0]
NoError == 0

\* what the backend's n-th invocation answers: a project of its own, or an
\* error of its own
Answer(status, n) ==
  IF status = "ok"
  THEN [status |-> "ok", project |-> [id |-> Id("backend", n), name |-> n],
        error |-> NoError]
  ELSE [status |-> "error", project |-> NoProject, error |-> n]
NoAnswer == [status |-> "none", project |-> NoProject, error |-> NoError]

\* convertToAtomsProject at clock value now
convertToAtomsProject(project, now) ==
  [id |-> Id("Date.now", now), name |-> project.name]

\* the value a call resolves with, by version
Resolved(version, answer, now) ==
  IF version = "invoke" THEN answer.project
  ELSE convertToAtomsProject(answer.project, now)

CreateFrame ==
  /\ UNCHANGED <<lpLayers, lpPending, leLayers, lePending, mMounted,
                 drawingState, initRenderer>>
  /\ AFrame

\* createProject up to its await
TCreateProject ==
  /\ Len(createCalls) < MaxCreateCalls
  /\ \E version \in Versions :
       createCalls' = Append(createCalls,
         [version |-> version, st |-> "pending", answer |-> NoAnswer,
          project |-> NoProject, error |-> NoError])
  /\ CreateFrame

\* the backend answers one of the invocations in flight, in any order
BCreateProject ==
  /\ \E i \in 1 .. Len(createCalls), status \in {"ok", "error"} :
       /\ createCalls[i].st = "pending"
       /\ createCalls' = [createCalls EXCEPT ![i].st = "answered",
                                             ![i].answer = Answer(status, i)]
  /\ CreateFrame

\* createProject after its await: return the project, or throw the error
TCreateProjectSettles ==
  /\ \E i \in 1 .. Len(createCalls), now \in Clock :
       /\ createCalls[i].st = "answered"
       /\ createCalls' =
            IF createCalls[i].answer.status = "ok"
            THEN [createCalls EXCEPT
                    ![i].st = "resolved",
                    ![i].project = Resolved(createCalls[i].version,
                                            createCalls[i].answer, now)]
            ELSE [createCalls EXCEPT
                    ![i].st = "rejected",
                    ![i].error = createCalls[i].answer.error]
  /\ CreateFrame

NextCreateProject == TCreateProject \/ BCreateProject \/ TCreateProjectSettles

SpecCreateProject == Init /\ [][NextCreateProject]_vars

\* ------------------------------------------- the mount of the hybrid Canvas
\* Canvas renders the canvas element only once drawingState is set; before
\* that it renders the initializing branch, and canvasRef.current is null
canvasRefAttached == drawingState # "null"

\* Canvas mounts: its first render, then the effect of useHybridDrawing whose
\* dependency list is empty, so that it runs this once.  initRenderer returns
\* at once when canvasRef.current is null; otherwise it goes on to create the
\* renderer (a branch the first render of Canvas never takes).
CMount ==
  /\ ~mMounted
  /\ mMounted' = TRUE
  /\ initRenderer' = IF ~canvasRefAttached THEN "returned" ELSE "started"
  /\ UNCHANGED <<lpLayers, lpPending, leLayers, lePending, createCalls,
                 drawingState>>
  /\ AFrame

\* AppContent: the Canvas next to the LayerPanel
NextApp == CMount \/ LPCreateLayer \/ LPDeleteLayer \/ LPSettles

SpecApp == Init /\ [][NextApp]_vars

\* React runs the effects of a mounted component
FairSpecApp == SpecApp /\ WF_vars(CMount)

\* ------------------------------- the command queue of useHybridDrawing
XFrame ==
  UNCHANGED <<cvars, wvars, evars, kvars, rvars, dvars, uvars, hvars, pvars,
              gvars, avars>>

QFrame == XFrame /\ UNCHANGED <<ivars, tvars, lvars, yvars, zvars>>

\* setState((prev) => ({...prev, commandQueue: [...prev.commandQueue,
\* ...commands]}))
AppendUpdate(commands) == [kind |-> "append", commands |-> commands]
\* setState((prev) => ({...prev, commandQueue: []}))
ClearUpdate == [kind |-> "clear", commands |-> <<>>]

\* React applies the updates in the order they were made
RECURSIVE ApplyUpdates(_, _)
ApplyUpdates(queue, updates) ==
  IF updates = <<>> THEN queue
  ELSE ApplyUpdates(IF Head(updates).kind = "append"
                      THEN queue \o Head(updates).commands
                      ELSE <<>>,
                    Tail(updates))

\* the initRenderer effect sets rendererRef.current
QInitRenderer ==
  /\ qRenderer = "null"
  /\ qRenderer' = "set"
  /\ UNCHANGED <<qQueue, qUpdates, qEffectPending, qExecuted, qInFlight,
                 qIssued>>
  /\ QFrame

\* endDrawing, createLayer, undo or redo up to the await of the backend call
QCall ==
  /\ qIssued + qInFlight < MaxQCmds
  /\ qInFlight' = qInFlight + 1
  /\ UNCHANGED <<qQueue, qUpdates, qEffectPending, qRenderer, qExecuted,
                 qIssued>>
  /\ QFrame

\* the same handlers after the await: the commands returned are appended with
\* a setState update, or the call failed and the queue is left alone
QCallSettles ==
  /\ qInFlight > 0
  /\ qInFlight' = qInFlight - 1
  /\ \E ok \in BOOLEAN :
       IF ok
         THEN /\ qIssued' = qIssued + 1
              /\ qUpdates' = Append(qUpdates, AppendUpdate(<<qIssued + 1>>))
         ELSE UNCHANGED <<qIssued, qUpdates>>
  /\ UNCHANGED <<qQueue, qEffectPending, qRenderer, qExecuted>>
  /\ QFrame

\* React renders: it first flushes the effects of the previous commit, so it
\* renders only when none is pending; the updates made so far are applied and
\* the new commandQueue array makes the command queue effect run
QRender ==
  /\ qUpdates # <<>> /\ ~qEffectPending
  /\ qQueue' = ApplyUpdates(qQueue, qUpdates)
  /\ qUpdates' = <<>>
  /\ qEffectPending' = TRUE
  /\ UNCHANGED <<qRenderer, qExecuted, qInFlight, qIssued>>
  /\ QFrame

\* the command queue effect
QEffect ==
  /\ qEffectPending
  /\ qEffectPending' = FALSE
  /\ IF Len(qQueue) > 0 /\ qRenderer = "set"
       THEN /\ qExecuted' = qExecuted \o qQueue
            /\ qUpdates' = Append(qUpdates, ClearUpdate)
       ELSE UNCHANGED <<qExecuted, qUpdates>>
  /\ UNCHANGED <<qQueue, qRenderer, qInFlight, qIssued>>
  /\ QFrame

NextQueue == QInitRenderer \/ QCall \/ QCallSettles \/ QRender \/ QEffect

SpecQueue == Init /\ [][NextQueue]_vars

\* ---------------------------------------- addPoint of the drawing contexts
IFrame == XFrame /\ UNCHANGED <<qvars, tvars, lvars, yvars, zvars>>

\* throw new Error(`Stroke ${strokeId} not found`)
StrokeNotFound == [threw |-> "Stroke not found", drew |-> FALSE]
\* throw new Error('... context not initialized')
NotInitialized == [threw |-> "not initialized", drew |-> FALSE]
\* the segment to the point is drawn and the point is pushed
PointAdded == [threw |-> "none", drew |-> TRUE]
\* console.error(...); return
LoggedOnly == [threw |-> "none", drew |-> FALSE]

\* WorkerContext.addPoint and WasmDirectDrawingContext.addPoint
WorkerAddPoint(drawingContext, active, id) ==
  IF ~drawingContext THEN NotInitialized
  ELSE IF id \notin active THEN StrokeNotFound
  ELSE PointAdded

\* Canvas2DDrawingContext.addPoint
Canvas2DAddPoint(active, id) ==
  IF id \notin active THEN StrokeNotFound ELSE PointAdded

\* wasmEngine.addPoint of useWasmCanvas, for a valid point
WasmEngineAddPoint(active, id) ==
  IF id \notin active THEN LoggedOnly ELSE PointAdded

\* the implementations of addPoint
AddPointBackends == Backends \cup {"wasmDirect"}

AddPoint ==
  /\ \E backend \in AddPointBackends, id \in AddIds,
        active \in SUBSET AddIds, ready \in BOOLEAN :
       /\ backend \notin {"wasmCanvasWorker", "wasmDirect"} => ready
       /\ addCall' = [backend |-> backend, id |-> id, active |-> active,
                      ready |-> ready]
       /\ addOutcome' =
            CASE backend = "useWasmCanvas" -> WasmEngineAddPoint(active, id)
              [] backend \in {"wasmCanvasWorker", "wasmDirect"} ->
                   WorkerAddPoint(ready, active, id)
              [] backend = "canvas2dContext" -> Canvas2DAddPoint(active, id)
  /\ IFrame

SpecAddPoint == Init /\ [][AddPoint]_vars

\* -------------------- WasmDirectDrawingContext and WasmViteDrawingContext
TFrame == XFrame /\ UNCHANGED <<qvars, ivars, lvars, yvars, zvars>>

\* new wasmModule.DrawingContext(...) / new wasmModule.SharedBuffer(...)
Alloc(kind) == [kind |-> kind, freed |-> FALSE]

\* object.free(), when the field is set
Freed(allocs, ref) ==
  IF ref = 0 THEN allocs ELSE [allocs EXCEPT ![ref].freed = TRUE]

\* scheduleRedraw() with the flag set but no animation frame requested
ScheduleRedrawWithoutFrame(sched) == [sched EXCEPT !.needsRedraw = TRUE]

\* scheduleRedraw()
ScheduleRedraw(sched) ==
  IF sched.needsRedraw THEN sched
  ELSE [needsRedraw |-> TRUE, frame |-> "requested"]

\* initialize() after initializeWasmModule has settled.  useCanvas has it run
\* twice on the context it installs: createWasmDirectContext awaits it, and
\* initEngine awaits context.initialize() again.  A run that throws leaves a
\* context the hook never holds.
TInitialize ==
  /\ tStage \in {"new", "created"}
  /\ \E moduleOk \in BOOLEAN, ctx2d \in BOOLEAN, shared \in BOOLEAN,
        clearOk \in BOOLEAN :
       IF ~moduleOk \/ ~ctx2d
         THEN /\ tStage' = "failed"
              /\ tLast' = [op |-> "initialize", threw |-> TRUE]
              /\ UNCHANGED <<tAllocs, tDrawingContext, tSharedBuffer>>
         ELSE LET withContext == Append(tAllocs, Alloc("DrawingContext"))
              IN /\ tDrawingContext' = Len(withContext)
                 /\ tAllocs' = IF shared
                                 THEN Append(withContext, Alloc("SharedBuffer"))
                                 ELSE withContext
                 /\ tSharedBuffer' = IF shared THEN Len(withContext) + 1
                                     ELSE tSharedBuffer
                 /\ tStage' = IF ~clearOk THEN "failed"
                              ELSE IF tStage = "new" THEN "created"
                              ELSE "installed"
                 /\ tLast' = [op |-> "initialize", threw |-> ~clearOk]
  /\ UNCHANGED <<tActive, tCounter, tSched, tDirty, tOps>>
  /\ TFrame

\* a drawing call on the installed context: its bookkeeping
TCall(op, threw) ==
  /\ tStage = "installed" /\ tOps < MaxTOps
  /\ tOps' = tOps + 1
  /\ tLast' = [op |-> op, threw |-> threw]
  /\ tSched' = IF threw THEN tSched ELSE ScheduleRedraw(tSched)
  /\ tDirty' = (tDirty \/ ~threw)
  /\ UNCHANGED <<tStage, tAllocs, tDrawingContext, tSharedBuffer>>
  /\ TFrame

\* startStroke: the stroke is stored before drawSinglePoint can throw
TStartStroke ==
  /\ \E drawOk \in BOOLEAN : TCall("startStroke", ~drawOk)
  /\ tCounter' = tCounter + 1
  /\ tActive' = [tActive EXCEPT ![tCounter] = 1]

\* addPoint: the point is pushed after drawLine
TAddPoint ==
  /\ \E id \in TIds, drawOk \in BOOLEAN :
       LET threw == tActive[id] = 0 \/ ~drawOk
       IN /\ TCall("addPoint", threw)
          /\ tActive' = IF threw THEN tActive
                        ELSE [tActive EXCEPT ![id] = 2]
  /\ UNCHANGED tCounter

\* endStroke: draw_stroke for a stroke of two points or more, then delete
TEndStroke ==
  /\ \E id \in TIds, drawOk \in BOOLEAN :
       LET threw == tActive[id] >= 2 /\ ~drawOk
       IN /\ TCall("endStroke", threw)
          /\ tActive' = IF threw THEN tActive
                        ELSE [tActive EXCEPT ![id] = 0]
  /\ UNCHANGED tCounter

\* clear
TClear ==
  /\ \E clearOk \in BOOLEAN :
       /\ TCall("clear", ~clearOk)
       /\ tActive' = IF clearOk THEN [id \in TIds |-> 0] ELSE tActive
  /\ UNCHANGED tCounter

\* the animation frame callback: updateCanvas(), needsRedraw = false
TAnimationFrame ==
  /\ tSched.frame = "requested"
  /\ tSched' = [needsRedraw |-> FALSE, frame |-> "none"]
  /\ tDirty' = FALSE
  /\ tLast' = [op |-> "updateCanvas", threw |-> FALSE]
  /\ UNCHANGED <<tStage, tAllocs, tDrawingContext, tSharedBuffer, tActive,
                 tCounter, tOps>>
  /\ TFrame

\* destroy(), called by useCanvas on the context it holds
TDestroy ==
  /\ tStage = "installed"
  /\ tStage' = "destroyed"
  /\ tSched' = [tSched EXCEPT !.frame = "none"]
  /\ tAllocs' = Freed(Freed(tAllocs, tDrawingContext), tSharedBuffer)
  /\ tDrawingContext' = 0
  /\ tSharedBuffer' = 0
  /\ tActive' = [id \in TIds |-> 0]
  /\ tLast' = [op |-> "destroy", threw |-> FALSE]
  /\ UNCHANGED <<tCounter, tDirty, tOps>>
  /\ TFrame

NextDirect ==
  \/ TInitialize \/ TStartStroke \/ TAddPoint \/ TEndStroke \/ TClear
  \/ TAnimationFrame \/ TDestroy

SpecDirect == Init /\ [][NextDirect]_vars

\* the browser runs a requested animation frame callback
FairSpecDirect == SpecDirect /\ WF_vars(TAnimationFrame)

\* ------------------------------- LayerPanelDrawingEngine: the layer ids
LFrame == XFrame /\ UNCHANGED <<qvars, ivars, tvars, yvars, zvars>>

\* handleAddLayer up to the await of createLayer(); the handler keeps the
\* layers of its render
LIAddLayer ==
  /\ Len(lIds) < MaxLayerList /\ Len(lIdPending) < MaxIdPending
  /\ lIdPending' = Append(lIdPending,
                          [op |-> "add", index |-> 0, layers |-> lIds])
  /\ UNCHANGED lIds
  /\ LFrame

\* handleDeleteLayer(index) up to the await of deleteLayer(index)
LIDeleteLayer ==
  /\ Len(lIds) > 1 /\ Len(lIdPending) < MaxIdPending
  /\ \E index \in 1 .. Len(lIds) :
       lIdPending' = Append(lIdPending,
                           [op |-> "delete", index |-> index, layers |-> lIds])
  /\ UNCHANGED lIds
  /\ LFrame

\* setLayers([...layers, {id: layers.length, ...}]) or
\* setLayers(layers.filter((_, i) => i !== index))
NewLayers(request) ==
  IF request.op = "add"
    THEN Append(request.layers, Len(request.layers))
    ELSE RemoveAt(request.layers, request.index)

\* either handler after its await
LISettles ==
  /\ \E i \in 1 .. Len(lIdPending), ok \in BOOLEAN :
       /\ lIdPending' = RemoveAt(lIdPending, i)
       /\ lIds' = IF ok THEN NewLayers(lIdPending[i]) ELSE lIds
  /\ LFrame

NextLayerIds == LIAddLayer \/ LIDeleteLayer \/ LISettles

SpecLayerIds == Init /\ [][NextLayerIds]_vars

\* ------------------------------------ DrawingEngine: the layer registry
YFrame == XFrame /\ UNCHANGED <<qvars, ivars, tvars, lvars, zvars>>

\* the width and height arguments tried
YSizes == {Finite(-1), Finite(0), Finite(1), NaN, Infinity}

\* Number.isInteger(n), for the numbers of YSizes
IsInteger(n) == n.kind = "finite"

\* n <= 0
NotPositive(n) == n.kind = "finite" /\ n.v <= 0

\* the argument checks of createLayer pass
ValidCreate(id, width, height) ==
  /\ id # ""
  /\ ~(\/ NotPositive(width) \/ NotPositive(height)
       \/ ~IsInteger(width) \/ ~IsInteger(height))

\* initialize()
YInitialize ==
  /\ ~yInitialized
  /\ \E ok \in BOOLEAN : yInitialized' = ok
  /\ UNCHANGED <<yLayers, yPending, yOps, yLast>>
  /\ YFrame

\* a call that throws before invoke, or goes on to await invoke
YCall(op, id, accepted) ==
  /\ yOps < MaxYOps
  /\ yOps' = yOps + 1
  /\ yLast' = [op |-> op,
               outcome |-> IF accepted THEN "invoked" ELSE "rejected"]
  /\ yPending' = IF accepted THEN Append(yPending, [op |-> op, id |-> id])
                 ELSE yPending
  /\ UNCHANGED <<yInitialized, yLayers>>
  /\ YFrame

\* createLayer(id, width, height) up to the await of create_drawing_layer
YCreateLayer ==
  \E id \in YIds, width \in YSizes, height \in YSizes :
    YCall("createLayer", id, ValidCreate(id, width, height) /\ yInitialized)

\* removeLayer(layerId) up to the await of remove_layer
YRemoveLayer ==
  \E id \in YIds : YCall("removeLayer", id, yInitialized /\ id \in yLayers)

\* the registry updated although the backend call failed
AfterInvokeAlways(registry, request, ok) ==
  IF request.op = "createLayer" THEN registry \cup {request.id}
  ELSE registry \ {request.id}

\* the registry after the await: this.layers.set / this.layers.delete when
\* invoke resolved, nothing when it rejected (handleError throws)
AfterInvoke(registry, request, ok) ==
  IF ~ok THEN registry
  ELSE IF request.op = "createLayer" THEN registry \cup {request.id}
  ELSE registry \ {request.id}

\* createLayer / removeLayer after the await
YSettles ==
  /\ \E i \in 1 .. Len(yPending), ok \in BOOLEAN :
       /\ yPending' = RemoveAt(yPending, i)
       /\ yLayers' = AfterInvoke(yLayers, yPending[i], ok)
       /\ yLast' = [op |-> yPending[i].op,
                    outcome |-> IF ok THEN "ok" ELSE "failed"]
  /\ UNCHANGED <<yInitialized, yOps>>
  /\ YFrame

NextRegistry == YInitialize \/ YCreateLayer \/ YRemoveLayer \/ YSettles

SpecRegistry == Init /\ [][NextRegistry]_vars

\* ----------------------------------- initWasm and initializeWasmModule
ZFrame == XFrame /\ UNCHANGED <<qvars, ivars, tvars, lvars, yvars>>

\* a call of the loader: the module if it is set, else the promise of the
\* attempt under way or made, else a new attempt
ZCall ==
  /\ Len(zCallers) < MaxZCallers
  /\ IF zModule = "set"
       THEN /\ zCallers' = Append(zCallers, "module")
            /\ UNCHANGED <<zPromise, zLoads>>
       ELSE /\ zCallers' = Append(zCallers, "promise")
            /\ IF zPromise # "null"
                 THEN UNCHANGED <<zPromise, zLoads>>
                 ELSE zPromise' = "pending" /\ zLoads' = zLoads + 1
  /\ UNCHANGED <<zLoader, zModule>>
  /\ ZFrame

\* the attempt from the settling of its last await to its end: on success
\* wasmModule is assigned; initWasm then calls checkRequiredFeatures() when
\* the module exports it, inside the same try block
ZLoadSettles ==
  /\ zPromise = "pending"
  /\ \E loaded \in BOOLEAN, checkThrows \in BOOLEAN :
       /\ (checkThrows => loaded /\ zLoader = "initWasm")
       /\ zModule' = IF loaded THEN "set" ELSE "null"
       /\ zPromise' = IF loaded /\ ~checkThrows THEN "resolved"
                      ELSE "rejected"
  /\ UNCHANGED <<zLoader, zLoads, zCallers>>
  /\ ZFrame

NextLoader == ZCall \/ ZLoadSettles

SpecLoader == Init /\ [][NextLoader]_vars

\* -------------------------------------------------------------- fairness
\* the worker's event loop handles every queued message, the main thread's
\* event loop dispatches every queued response and runs every due timer
WorkerStep ==
  \/ WInitBegin \/ WInitFinish \/ WStartStroke \/ WAddPoint \/ WEndStroke
  \/ WClear \/ WUpdateCanvas

FairSpecCanvas ==
  SpecCanvas /\ WF_vars(WorkerStep) /\ WF_vars(COnMessage)

KStep ==
  \/ KInitBegin \/ KInitFinish \/ KStartStroke \/ KAddPoint \/ KEndStroke
  \/ KClear \/ KResize \/ KDestroy

FairSpecEngine ==
  SpecEngine /\ WF_vars(KStep) /\ WF_vars(EHandleWorkerMessage)
             /\ WF_vars(ETimeout)

\* ================================================================ claims

\* a step in which the listener of WasmCanvasDrawingContext handles the
\* oldest queued response
CDelivers == nCalls' = nCalls /\ cToMain # <<>> /\ cToMain' = Tail(cToMain)

\* C1: in WasmCanvasDrawingContext a dispatched response settles exactly the
\* pending request whose id equals the response's id -- rejected with the
\* response's error when it carries one, resolved with the response's data
\* otherwise -- and leaves every other request as it was; a response whose id
\* is in no pending entry changes nothing, and nothing but a dispatched
\* response changes a request's result.
C1_ResponseSettlesItsOwnRequest ==
  [][\A i \in 1 .. Len(msgs) :
       IF CDelivers /\ Head(cToMain).id = i - 1 /\ (i - 1) \in pendingMessages
         THEN LET r == Head(cToMain)
              IN /\ msgs[i].st = "pending"
                 /\ (i - 1) \notin pendingMessages'
                 /\ IF Truthy(r.error)
                      THEN msgs'[i].st = "rejected" /\ msgs'[i].err = r.error
                      ELSE msgs'[i].st = "resolved" /\ msgs'[i].val = r.data
         ELSE msgs'[i] = msgs[i]]_vars

\* two requests were pending at once and the later one has been settled first
C1_Witness ==
  \E i, j \in 1 .. Len(msgs) :
    /\ i < j
    /\ msgs[i].st = "pending" /\ (i - 1) \in pendingMessages
    /\ msgs[j].st # "pending"

\* a response is about to be dispatched whose pending entry is gone
C1_StaleResponseQueued ==
  /\ cToMain # <<>>
  /\ Head(cToMain).id \notin pendingMessages

\* C2: in WasmDrawEngine every request settled by a worker response is
\* settled by the response the worker produced for that very request.
C2_ResponseSettlesRequestItAnswers ==
  \A n \in 1 .. Len(reqs) :
    reqs[n].why \in {"response", "error"} => reqs[n].by = n

\* a step in which handleWorkerMessage handles the response of a request that
\* had already timed out
ELateResponse ==
  /\ eToMain # <<>> /\ eToMain' = Tail(eToMain)
  /\ Head(eToMain).for # 0
  /\ reqs[Head(eToMain).for].why = "timeout"

\* C3: in WasmDrawEngine the response of a request that has timed out is
\* discarded: handling it changes no request's result and no pending entry.
C3_LateResponseDiscarded ==
  [][ELateResponse => reqs' = reqs /\ pendingRequests' = pendingRequests]_vars

\* request n has been sent and the main thread has not yet been handed the
\* worker's response to it
ENoResponseYet(n) ==
  \/ \E k \in 1 .. Len(eToWorker) : eToWorker[k].requestId = n
  \/ n \in kInitAwait
  \/ \E k \in 1 .. Len(eToMain) : eToMain[k].for = n

\* C4: whenever the 5 s timer of a WasmDrawEngine request expires before any
\* response to it has been received, the request is rejected with the timeout
\* error and is no longer in the pending table.
C4_TimeoutRejects ==
  [][\A n \in eTimers :
       (n \notin eTimers' /\ ENoResponseYet(n))
         => /\ reqs'[n].st = "rejected" /\ reqs'[n].why = "timeout"
            /\ \A i \in 1 .. Len(pendingRequests') : pendingRequests'[i] # n]_vars

\* worker.terminate() is never reached
EWorkerNeverTerminated == ~eTerminated

\* the largest number of messages MaxCalls calls can send
MaxMsgs == 2 * MaxCalls

\* C5: every request sent through WasmCanvasDrawingContext is eventually
\* settled (resolved or rejected).
C5_EveryRequestSettles ==
  \A i \in 1 .. MaxMsgs :
    [](Len(msgs) >= i => <>(Len(msgs) >= i /\ msgs[i].st # "pending"))

\* C6: a destroy() call rejects every completion that was pending when it was
\* called, in WasmDrawEngine and in WasmCanvasDrawingContext.
C6_DestroyRejectsPending ==
  [][/\ (Len(reqs') = Len(reqs) + 1 /\ reqs'[Len(reqs')].type = "destroy")
          => \A i \in 1 .. Len(pendingRequests) :
               reqs'[pendingRequests[i]].st = "rejected"
     /\ (nCalls' = nCalls + 1 /\ lastCall'.op = "destroy")
          => \A id \in pendingMessages : msgs'[id + 1].st = "rejected"]_vars

\* C7: once WasmDrawEngine.destroy() has been called on an engine with a
\* running worker, the worker is eventually terminated.
C7_DestroyTerminatesWorker == eDestroyCalled ~> eTerminated

\* a step that is a startStroke, addPoint, endStroke or clear call
CDrawingCall == nCalls' = nCalls + 1 /\ lastCall'.op \in DrawingOps

\* C8 as stated: after destroy() has been called, every startStroke, addPoint,
\* endStroke or clear call is rejected and posts nothing to a worker.
C8_NoPostAfterDestroy ==
  [][(CDrawingCall /\ cDestroyed)
       => (lastCall'.rejected /\ cToWorker' = cToWorker)]_vars

\* C8 amended: after destroy() has been called, and as long as initialize()
\* has not been called again since, every startStroke, addPoint, endStroke or
\* clear call is rejected and posts nothing to a worker.
C8_NoPostAfterDestroyUntilReinit ==
  [][(CDrawingCall /\ cDestroyed /\ ~cReinit)
       => (lastCall'.rejected /\ cToWorker' = cToWorker)]_vars

\* a context with a worker and a request in flight was destroyed, and a later
\* endStroke or clear (the calls without an initialized check) was rejected
C8_Witness ==
  /\ cDestroyed /\ ~cReinit /\ cTransferred
  /\ lastCall.op \in {"endStroke", "clear"} /\ lastCall.rejected
  /\ \E i \in 1 .. Len(msgs) : msgs[i].st = "pending"

\* initialize() has completed successfully
CInitCompleted ==
  \E i \in 1 .. Len(msgs) : msgs[i].type = "init" /\ msgs[i].st = "resolved"

\* C9: no startStroke, addPoint, endStroke or clear request is posted to the
\* worker before initialize() has completed successfully.
C9_NoDrawingPostBeforeInitialized ==
  [][(Len(msgs') = Len(msgs) + 1 /\ msgs'[Len(msgs')].type \in DrawingOps)
       => CInitCompleted]_vars

\* a step in which the worker takes a message other than init off its queue
WTakesDrawing ==
  /\ wAlive' /\ cToWorker # <<>> /\ Len(cToWorker') = Len(cToWorker) - 1
  /\ \E k \in 1 .. Len(cToWorker) :
       cToWorker' = RemoveAt(cToWorker, k) /\ cToWorker[k].type # "init"

\* a step in which a response to a request other than init is posted
WPostsDrawing ==
  /\ Len(cToMain') > Len(cToMain)
  /\ msgs[cToMain'[Len(cToMain')].id + 1].type # "init"

\* C10: the wasmCanvas worker takes the drawing requests in the order they
\* arrived: the request it applies is always the oldest one queued, and the
\* step that applies it posts exactly one response, carrying that request's
\* id, behind the responses posted before; no other step posts a response to
\* a drawing request.
C10_WorkerAppliesInArrivalOrder ==
  [][(WTakesDrawing \/ WPostsDrawing)
       => /\ cToWorker # <<>>
          /\ cToWorker' = Tail(cToWorker)
          /\ \E r \in {cToMain'[Len(cToMain')]} :
               /\ cToMain' = Append(cToMain, r)
               /\ r.id = Head(cToWorker).id]_vars

\* after initialization two drawing requests have been answered in order
C10_Witness ==
  /\ wDrawingContext /\ wAlive
  /\ \E i, j \in 1 .. Len(msgs) :
       /\ i < j
       /\ msgs[i].type \in DrawingOps /\ msgs[i].st = "resolved"
       /\ msgs[j].type \in DrawingOps /\ msgs[j].st = "resolved"

\* C11: a request whose execution threw in the wasmCanvas worker (in the
\* handler or in the backend draw call) is, once its response is dispatched,
\* rejected; it is never resolved as a success.
C11_FailedRequestIsRejected ==
  \A i \in 1 .. Len(msgs) : msgs[i].threw => msgs[i].st = "rejected"

\* a step that is an executeCommands call of Canvas2DRenderer
RExecutes == rCmds' # rCmds

\* C12: when a sub-command of a Batch fails, the layer store (layer set,
\* layer properties, pixel content and layer order) is afterwards what it was
\* before the Batch was submitted.
C12_FailedBatchLeavesStoreUnchanged ==
  [][(RExecutes /\ rLast'.type = "Batch" /\ rLast'.threw)
       => (layers' = layers /\ layerOrder' = layerOrder)]_vars

\* C13: a RemoveLayer, UpdateLayerProperties or ApplyTransform command that
\* names a layer id that is not in the store fails.
C13_UnknownLayerFails ==
  [][(/\ RExecutes
      /\ rLast'.type \in {"RemoveLayer", "UpdateLayerProperties",
                          "ApplyTransform"}
      /\ rLast'.layer \notin DOMAIN layers)
       => rLast'.threw]_vars

\* C14: a DrawPath or UpdateRasterArea command that names a layer id that is
\* not in the store is rejected and leaves the layer set and the layer order
\* unchanged.
C14_DrawOnUnknownLayerRejected ==
  [][(/\ RExecutes
      /\ rLast'.type \in {"DrawPath", "UpdateRasterArea"}
      /\ rLast'.layer \notin DOMAIN layers)
       => /\ rLast'.threw
          /\ DOMAIN layers' = DOMAIN layers
          /\ layerOrder' = layerOrder]_vars

\* C15: the layer order lists every layer id of the store exactly once and
\* no id that is not in the store.
C15_OrderListsStoreExactlyOnce ==
  /\ {layerOrder[i] : i \in 1 .. Len(layerOrder)} = DOMAIN layers
  /\ Len(layerOrder) = Cardinality(DOMAIN layers)

\* the layers of the store that are visible, as the layer order lists them
VisibleInOrder ==
  SelectSeq(layerOrder,
            LAMBDA id : id \in DOMAIN layers /\ layers[id].visible # "false")

\* the alpha (in tenths) and the composite operation a layer is blended with:
\* those last given by UpdateLayerProperties, else opaque and source-over
AlphaOf(layer) ==
  IF layer.opacity = Undefined THEN 10
  ELSE IF layer.opacity = "0.5" THEN 5 ELSE IF layer.opacity = "1" THEN 10 ELSE 0

OperationOf(layer) ==
  IF layer.blendMode \in {"multiply", "screen", "overlay"}
    THEN layer.blendMode ELSE "source-over"

\* the blend at pixel p of the visible layers, in layer order
BlendOfVisible(p) ==
  LET painted == SelectSeq(VisibleInOrder, LAMBDA id : layers[id].ink[p] # 0)
  IN [i \in 1 .. Len(painted) |->
        <<layers[painted[i]].ink[p], AlphaOf(layers[painted[i]]),
          OperationOf(layers[painted[i]])>>]

\* C17: after every executeCommands call that completes on an initialized
\* Canvas2DRenderer, the main canvas holds the blend, in layer order, of
\* exactly the visible layers -- a function of the layer stack alone, whatever
\* the main canvas held before and however often the composition has run.
C17_CompositeIsBlendOfVisibleLayers ==
  (rCtx = "set" /\ rLast.type \notin {"none", "init"} /\ ~rLast.threw)
    => \A p \in Pixels : rMain[p] = BlendOfVisible(p)

\* a composition has run over two painted visible layers
C17_Witness ==
  /\ rCtx = "set" /\ rLast.type \notin {"none", "init"} /\ ~rLast.threw
  /\ Len(layerOrder) = 2 /\ layerOrder[1] # layerOrder[2]
  /\ Len(rMain[1]) = 2

\* a composition has run over a painted layer that is hidden
C17_HiddenLayerSkipped ==
  /\ rCtx = "set" /\ rLast.type \notin {"none", "init"} /\ ~rLast.threw
  /\ \E a \in DOMAIN layers :
       /\ layers[a].visible = "false" /\ layers[a].ink[1] # 0
       /\ \E i \in 1 .. Len(layerOrder) : layerOrder[i] = a

\* a composition has been run again on an unchanged, painted stack
C17_RerunOnUnchangedStack ==
  /\ rCtx = "set" /\ rLast.type = "ShowSelection" /\ ~rLast.threw
  /\ Len(rMain[1]) = 1

\* a step in which updateCanvas paints the dirty region of a diff result
DAppliesDiff ==
  /\ dQueue # <<>> /\ dQueue' = Tail(dQueue)
  /\ Head(dQueue).useDiff /\ Head(dQueue).ok
  /\ Head(dQueue).region.width > 0

DCanvasCatchesUp ==
  (dQueue = <<>> /\ dDirty = NoRegion) => dCanvas = FullRecompose(dStore)

\* C18: every initEngine run of useCanvas whose selected backend ('wasm' or
\* 'wasmWorker') failed to initialize has fallen back to the Canvas 2D
\* backend: its fallback context was installed and the surface made ready.
C18_FailedBackendFallsBack ==
  \A r \in 1 .. Len(uRuns) :
    (/\ uRuns[r].stage = "done" /\ uRuns[r].primary = "failed"
     /\ uRuns[r].engine \in {"wasm", "wasmWorker"})
      => uRuns[r].fallback = "ok"

\* every backend candidate of the latest initEngine run has failed
URendererUnavailable ==
  /\ uRuns # <<>>
  /\ uRuns[Len(uRuns)].stage = "done"
  /\ uRuns[Len(uRuns)].primary = "failed"
  /\ uRuns[Len(uRuns)].fallback # "ok"
  /\ uContextRef = 0

\* C19: once every backend candidate has failed to initialize, each
\* startDrawing, draw or endDrawing request is rejected with an error; none is
\* silently ignored.
C19_UnavailableRejectsRequests ==
  [][(/\ uReqs' = uReqs + 1
      /\ uLast'.op \in {"startDrawing", "draw", "endDrawing"}
      /\ URendererUnavailable)
       => uLast'.outcome = "rejected"]_vars

\* C20: when a stroke in progress ends with one recorded point (a tap), the
\* hook sends it to be drawn; it is not dropped.
C20_TapIsDrawn ==
  [][(/\ hOps' = hOps + 1 /\ hLast'.op = "endDrawing"
      /\ hIsDrawing /\ Len(currentStroke) = 1)
       => hLast'.sent]_vars

\* C21: a stroke of two or more points is sent to be drawn once: no two
\* drawStroke operations in flight carry the points of the same stroke.
C21_StrokeIsSentOnce ==
  \A i, j \in 1 .. Len(hPending) : i # j => hPending[i] # hPending[j]

\* C22: a pointercancel that ends a stroke in progress sends nothing to be
\* drawn and discards the recorded points.
C22_CancelDiscardsStroke ==
  [][(/\ hOps' = hOps + 1 /\ hLast'.event = "pointercancel" /\ hIsDrawing)
       => (~hLast'.sent /\ currentStroke' = <<>>)]_vars

\* a number that is neither NaN nor an infinity
IsFiniteNumber(n) == n.kind = "finite"

\* a point that begin has to reject
InvalidPoint(point) ==
  \/ ~IsFiniteNumber(point.x) \/ ~IsFiniteNumber(point.y)
  \/ /\ point.pressure # Absent
     /\ \/ ~IsFiniteNumber(point.pressure)
        \/ point.pressure.v < 0 \/ point.pressure.v > 1

\* C23: startStroke with a non-finite coordinate or a pressure outside [0,1]
\* throws and stores no stroke.
C23_InvalidPointRejected ==
  (strokeCall.backend # "none" /\ InvalidPoint(strokeCall.point))
    => (strokeOutcome.threw /\ ~strokeOutcome.stored)

\* C24: the points drawLine generates begin at the first end point, end at
\* the second, and any two consecutive ones are at most 2 px apart.
C24_InterpolationIsGapFree ==
  lineCall.called =>
    LET n == linePoints.steps
        ps == linePoints.points
    IN /\ Len(ps) >= 2
       /\ ps[1] = [x |-> lineCall.x1 * n, y |-> lineCall.y1 * n]
       /\ ps[Len(ps)] = [x |-> lineCall.x2 * n, y |-> lineCall.y2 * n]
       /\ \A k \in 1 .. Len(ps) - 1 :
            DistanceSquared(ps[k].x, ps[k].y, ps[k + 1].x, ps[k + 1].y)
              <= (2 * n) * (2 * n)

\* a segment longer than 4 px has been interpolated with more than two steps
C24_Witness ==
  /\ lineCall.called
  /\ DistanceSquared(lineCall.x1, lineCall.y1, lineCall.x2, lineCall.y2) > 16
  /\ linePoints.steps > 2
  /\ Len(linePoints.points) = linePoints.steps + 1

\* a step of the main thread of WasmDrawEngine: a call, the dispatch of a
\* worker message, or a timer
EMainStep ==
  \/ eInitCalled' # eInitCalled \/ requestIdCounter' # requestIdCounter
  \/ eTimers' # eTimers /\ requestIdCounter' = requestIdCounter
  \/ eToMain # <<>> /\ eToMain' = Tail(eToMain)

\* C25: a main-thread step of WasmDrawEngine reads the pixel buffer only when
\* it is the dispatch of a 'rendered' message.
C25_ReadsOnlyOnRendered ==
  [][(EMainStep /\ eRead' # "none")
       => (/\ eToMain # <<>> /\ Head(eToMain).type = "rendered"
           /\ eToMain' = Tail(eToMain))]_vars

\* a 'rendered' notification has made the main thread read the buffer
C25_Witness == eRead = "shared"

\* C26: the buffer the main thread reads on a 'rendered' notification is the
\* one it received from the worker, in which the worker's engine renders.
C26_ReadsTheWorkersBuffer == eRead \in {"none", "shared"}

\* C27: a pointer move sends continueStroke only when no beginStroke is
\* still awaiting its answer.
C27_ContinueAfterBeginAcknowledged ==
  [][(gOps' = gOps + 1 /\ gLast'.op = "pointermove" /\ gLast'.sent)
       => ~\E i \in 1 .. Len(drawCommands) :
             drawCommands[i].type = "beginStroke"]_vars

\* C28: neither layer panel ever shows more than maxLayers layers.
C28_LayerCountBounded == lpLayers <= maxLayers /\ leLayers <= maxLayers

\* C29: a settled createProject call has resolved with the project its own
\* backend invocation returned, or rejected with that invocation's error.
C29_SettlesWithOwnOutcome ==
  \A i \in 1 .. Len(createCalls) :
    /\ createCalls[i].st = "resolved" =>
         /\ createCalls[i].answer.status = "ok"
         /\ createCalls[i].project = createCalls[i].answer.project
    /\ createCalls[i].st = "rejected" =>
         /\ createCalls[i].answer.status = "error"
         /\ createCalls[i].error = createCalls[i].answer.error

\* the initialization of the renderer has completed (the drawing state is
\* set, so Canvas leaves its initializing branch) or has failed explicitly
InitSettled == drawingState # "null" \/ initRenderer = "failed"

\* C30: once the hybrid Canvas has mounted, the initialization of its
\* renderer eventually completes or explicitly fails.
C30_InitEventuallySettles == mMounted ~> InitSettled

\* C31: in useCanvas, an endDrawing call made while a stroke is in progress on
\* a ready surface leaves isDrawing false, whether or not startStroke has
\* returned yet.
C31_EndDrawingStopsStroke ==
  [][(/\ uReqs' = uReqs + 1 /\ uLast'.op = "endDrawing"
      /\ uIsDrawing /\ uIsReady /\ uContextRef # 0)
       => ~uIsDrawing']_vars

\* every initEngine run of useCanvas has settled
UAllSettled ==
  uRuns # <<>> /\ \A r \in 1 .. Len(uRuns) : uRuns[r].stage = "done"

\* context c was handed to the hook by an initialization that succeeded and
\* has not been destroyed
ULive(c) ==
  /\ ~uCreated[c].destroyed
  /\ \/ uCreated[c].kind # "wasmWorker"
     \/ \E r \in 1 .. Len(uRuns) :
          uRuns[r].context = c /\ uRuns[r].primary = "ok"

\* C32: once every initialization of useCanvas has settled, the only context
\* still alive is the one the hook holds, it was made for the most recent
\* selection, and after an unmount none is alive.
C32_OnlyLatestContextHeld ==
  UAllSettled =>
    \A c \in 1 .. Len(uCreated) :
      ULive(c) =>
        /\ uMounted /\ c = uContextRef
        /\ uCreated[c].kind \in {uRuns[Len(uRuns)].engine, "canvas2d"}

\* the hook has nothing left to do for its command queue
QIdle == qUpdates = <<>> /\ ~qEffectPending /\ qQueue = <<>>

\* C33: the renderer executes the commands in the order the backend returned
\* them, none twice, and once the queue is empty and idle none is missing.
C33_CommandsExecutedOnceInOrder ==
  /\ \A i \in 1 .. Len(qExecuted) : qExecuted[i] = i
  /\ QIdle => Len(qExecuted) = qIssued

\* a step in which the initialized wasmCanvas worker handles an endStroke
WHandlesEndStroke ==
  /\ wAlive /\ wDrawingContext /\ cToWorker # <<>>
  /\ WorkerHead.type = "endStroke"
  /\ Len(cToMain') = Len(cToMain) + 1

\* C34: once a drawing context has handled endStroke(id), id is not an active
\* stroke, whether the final draw call succeeded or threw.
C34_EndedStrokeIsInactive ==
  [][WHandlesEndStroke => activeStrokes'[WorkerHead.sid] = 0]_vars

\* C35: addPoint on an initialized drawing context for a stroke id that is
\* not active fails with 'Stroke not found' and draws nothing.
C35_InactiveStrokeIsRejected ==
  (/\ addCall.backend # "none" /\ addCall.ready
   /\ addCall.id \notin addCall.active)
    => addOutcome = StrokeNotFound

\* C36: once the WasmDirectDrawingContext that useCanvas holds has been
\* destroyed, every DrawingContext and SharedBuffer allocated for it is freed.
C36_DestroyFreesAllocations ==
  tStage = "destroyed" =>
    \A a \in 1 .. Len(tAllocs) : tAllocs[a].freed

C37_LayerIdsAreUnique ==
  \A i, j \in 1 .. Len(lIds) : i # j => lIds[i] # lIds[j]

\* C38: the layer registry of DrawingEngine changes only in the step in which
\* a createLayer or removeLayer call resumes from a backend call that
\* succeeded; a call rejected by its checks, or whose backend call failed,
\* leaves it as it was.
C38_RegistryChangesOnlyOnSuccess ==
  [][yLayers' # yLayers
       => (Len(yPending') < Len(yPending) /\ yLast'.outcome = "ok")]_vars

\* a backend call has failed while a layer was registered
C38_Witness == yLayers # {} /\ yLast.outcome = "failed"

\* what a caller of the loader observes once the attempt has settled
ZObserved(given) == IF given = "module" THEN "resolved" ELSE zPromise

====
